---- MODULE Spec2Model ----
(***************************************************************************)
(* Model of the functional-dependency engine of the Prisma schema auditor: *)
(* attribute closure and superkeys (src/core/analysis/inferFds.ts),        *)
(* candidate keys (computeKeys.ts), the 3NF/BCNF checker (check3nf.ts),    *)
(* the invariants reconciler (invariants/parse.ts, generate.ts), the other *)
(* checkers, contract extraction (extractContract.ts), the audit           *)
(* (src/index.ts) and the exit code of the command line (src/cli.ts).      *)
(*                                                                         *)
(* Arrays are sequences and Set<string> is a set.  A string that may be    *)
(* null is a string or NULL; an object or array that may be null or        *)
(* undefined is None or Some(value), read with Val.                        *)
(***************************************************************************)
EXTENDS Integers, Sequences, FiniteSets, TLC

VARIABLES
  pc,                \* position of the running function
  attributes,        \* attributeClosure: parameter `attributes`
  fds,               \* attributeClosure: parameter `fds`
  modelName,         \* attributeClosure: parameter `modelName`
  closure,           \* attributeClosure: local `closure`
  changed,           \* attributeClosure: local `changed`
  contract,          \* audit: `contract`, the result of extractContract
  invariantsFile,    \* audit: the parsed invariants file, None without --invariants
  schemaFds,         \* audit: `schemaFds`
  allFds,            \* audit: `allFds`
  invariantFindings, \* audit: `invariantFindings`
  suppress,          \* audit: `suppress`
  allFindings,       \* audit: `allFindings`
  result,            \* the value returned by audit or by generateInvariants
  dmmf,              \* parseSchema: the datamodel getDMMF gives for the schema file
  parsed,            \* audit: `parsed`, the ParseResult of the schema
  noTimestamp,       \* audit: options.noTimestamp
  firstRun,          \* the AuditResult of an earlier run on the same inputs, if any
  failOn,            \* main: --fail-on, NULL when absent
  exitCode           \* main: the returned exit code

closureVars == <<attributes, fds, modelName, closure, changed>>

auditVars ==
  <<contract, invariantsFile, schemaFds, allFds, invariantFindings, suppress, allFindings, result>>

mainVars == <<dmmf, parsed, noTimestamp, firstRun, failOn, exitCode>>

vars == <<pc, closureVars, auditVars, mainVars>>

NULL == "null"

None == <<>>

Some(v) == <<v>>

Val(opt) == opt[1]

\* The audit is called once, as a library, on an extracted contract and
\* with noTimestamp set.
MainIdle ==
  /\ dmmf = None
  /\ parsed = None
  /\ noTimestamp = TRUE
  /\ firstRun = None
  /\ failOn = None
  /\ exitCode = None

\* No audit is running.
AuditIdle ==
  /\ MainIdle
  /\ contract = None
  /\ invariantsFile = None
  /\ schemaFds = None
  /\ allFds = None
  /\ invariantFindings = None
  /\ suppress = None
  /\ allFindings = None
  /\ result = None

\* No attributeClosure call is observed.
ClosureIdle ==
  /\ attributes = None
  /\ fds = None
  /\ modelName = None
  /\ closure = None
  /\ changed = None

----------------------------------------------------------------------------
(* Array helpers.                                                          *)

Range(s) == {s[i] : i \in 1..Len(s)}

\* Array.prototype.includes
Includes(s, x) == \E i \in 1..Len(s) : s[i] = x

\* Sequences over S of length lo..hi
SeqsOf(S, lo, hi) == UNION {[1..n -> S] : n \in lo..hi}

\* [...a, ...b, ...] of an array of arrays (Array.prototype.flat, spread)
RECURSIVE Flat(_)
Flat(ss) == IF ss = <<>> THEN <<>> ELSE Head(ss) \o Flat(Tail(ss))

\* Array.prototype.find, given the elements that satisfy the test in array
\* order: the first of them, if any
Find(matching) == IF matching = <<>> THEN None ELSE Some(Head(matching))

----------------------------------------------------------------------------
(* Strings.  A name is an atom of the model; Chars gives its spelling, used *)
(* where the code looks inside a string (comparison, slicing, regular       *)
(* expressions).  Names of one character spell themselves.                  *)

Chars(name) ==
  CASE name = "NF1_LIST_IN_STRING_SUSPECTED" ->
         <<"N", "F", "1", "_", "L", "I", "S", "T", "_", "I", "N", "_", "S", "T", "R", "I",
           "N", "G", "_", "S", "U", "S", "P", "E", "C", "T", "E", "D">>
    [] name = "NF1_REPEATING_GROUP_SUSPECTED" ->
         <<"N", "F", "1", "_", "R", "E", "P", "E", "A", "T", "I", "N", "G", "_", "G", "R",
           "O", "U", "P", "_", "S", "U", "S", "P", "E", "C", "T", "E", "D">>
    [] name = "NF1_JSON_RELATION_SUSPECTED" ->
         <<"N", "F", "1", "_", "J", "S", "O", "N", "_", "R", "E", "L", "A", "T", "I", "O",
           "N", "_", "S", "U", "S", "P", "E", "C", "T", "E", "D">>
    [] name = "NF2_PARTIAL_DEPENDENCY_SUSPECTED" ->
         <<"N", "F", "2", "_", "P", "A", "R", "T", "I", "A", "L", "_", "D", "E", "P", "E",
           "N", "D", "E", "N", "C", "Y", "_", "S", "U", "S", "P", "E", "C", "T", "E", "D">>
    [] name = "NF2_JOIN_TABLE_DUPLICATED_ATTR_SUSPECTED" ->
         <<"N", "F", "2", "_", "J", "O", "I", "N", "_", "T", "A", "B", "L", "E", "_", "D",
           "U", "P", "L", "I", "C", "A", "T", "E", "D", "_", "A", "T", "T", "R", "_", "S",
           "U", "S", "P", "E", "C", "T", "E", "D">>
    [] name = "NF3_VIOLATION" ->
         <<"N", "F", "3", "_", "V", "I", "O", "L", "A", "T", "I", "O", "N">>
    [] name = "BCNF_VIOLATION" ->
         <<"B", "C", "N", "F", "_", "V", "I", "O", "L", "A", "T", "I", "O", "N">>
    [] name = "INVARIANT_UNKNOWN_MODEL" ->
         <<"I", "N", "V", "A", "R", "I", "A", "N", "T", "_", "U", "N", "K", "N", "O", "W",
           "N", "_", "M", "O", "D", "E", "L">>
    [] name = "INVARIANT_UNKNOWN_FIELD" ->
         <<"I", "N", "V", "A", "R", "I", "A", "N", "T", "_", "U", "N", "K", "N", "O", "W",
           "N", "_", "F", "I", "E", "L", "D">>
    [] name = "INVARIANT_DETERMINANT_NOT_ENFORCED" ->
         <<"I", "N", "V", "A", "R", "I", "A", "N", "T", "_", "D", "E", "T", "E", "R", "M",
           "I", "N", "A", "N", "T", "_", "N", "O", "T", "_", "E", "N", "F", "O", "R", "C",
           "E", "D">>
    [] name = "SOFTDELETE_MISSING_IN_UNIQUE" ->
         <<"S", "O", "F", "T", "D", "E", "L", "E", "T", "E", "_", "M", "I", "S", "S", "I",
           "N", "G", "_", "I", "N", "_", "U", "N", "I", "Q", "U", "E">>
    [] name = "SOFTDELETE_AT_WITHOUT_BY" ->
         <<"S", "O", "F", "T", "D", "E", "L", "E", "T", "E", "_", "A", "T", "_", "W", "I",
           "T", "H", "O", "U", "T", "_", "B", "Y">>
    [] name = "SOFTDELETE_BY_WITHOUT_AT" ->
         <<"S", "O", "F", "T", "D", "E", "L", "E", "T", "E", "_", "B", "Y", "_", "W", "I",
           "T", "H", "O", "U", "T", "_", "A", "T">>
    [] name = "FK_MISSING_INDEX" ->
         <<"F", "K", "_", "M", "I", "S", "S", "I", "N", "G", "_", "I", "N", "D", "E", "X">>
    [] name = "User" -> <<"U", "s", "e", "r">>
    [] name = "Post" -> <<"P", "o", "s", "t">>
    [] name = "id" -> <<"i", "d">>
    [] name = "email" -> <<"e", "m", "a", "i", "l">>
    [] name = "name" -> <<"n", "a", "m", "e">>
    [] name = "authorId" -> <<"a", "u", "t", "h", "o", "r", "I", "d">>
    [] name = "title" -> <<"t", "i", "t", "l", "e">>
    [] name = "content" -> <<"c", "o", "n", "t", "e", "n", "t">>
    [] name = "published" -> <<"p", "u", "b", "l", "i", "s", "h", "e", "d">>
    [] name = "author" -> <<"a", "u", "t", "h", "o", "r">>
    [] name = "posts" -> <<"p", "o", "s", "t", "s">>
    [] name = "tagIds" -> <<"t", "a", "g", "I", "d", "s">>
    [] name = "deleted_at" -> <<"d", "e", "l", "e", "t", "e", "d", "_", "a", "t">>
    [] name = "deletedAt" -> <<"d", "e", "l", "e", "t", "e", "d", "A", "t">>
    [] name = "deleted_by" -> <<"d", "e", "l", "e", "t", "e", "d", "_", "b", "y">>
    [] name = "deletedBy" -> <<"d", "e", "l", "e", "t", "e", "d", "B", "y">>
    [] name = "phone1" -> <<"p", "h", "o", "n", "e", "1">>
    [] name = "phone2" -> <<"p", "h", "o", "n", "e", "2">>
    [] name = "phone10" -> <<"p", "h", "o", "n", "e", "1", "0">>
    [] name = "fax1" -> <<"f", "a", "x", "1">>
    [] OTHER -> <<name>>

UpperCase ==
  <<"A", "B", "C", "D", "E", "F", "G", "H", "I", "J", "K", "L", "M",
    "N", "O", "P", "Q", "R", "S", "T", "U", "V", "W", "X", "Y", "Z">>

LowerCase ==
  <<"a", "b", "c", "d", "e", "f", "g", "h", "i", "j", "k", "l", "m",
    "n", "o", "p", "q", "r", "s", "t", "u", "v", "w", "x", "y", "z">>

Digits == <<"0", "1", "2", "3", "4", "5", "6", "7", "8", "9">>

\* The characters of names and of the punctuation the code joins them with,
\* in ascending order of UTF-16 code unit.
CharOrder == <<" ", "+", ",", ".">> \o Digits \o <<":">> \o UpperCase \o <<"_">> \o LowerCase

CharRank(ch) == CHOOSE i \in 1..Len(CharOrder) : CharOrder[i] = ch

\* ka < kb on two strings given by their characters.
CharsLess(ka, kb) ==
  \E i \in 1..(Len(kb)) :
    /\ \A j \in 1..(i - 1) : j <= Len(ka) /\ ka[j] = kb[j]
    /\ \/ i = Len(ka) + 1
       \/ i <= Len(ka) /\ CharRank(ka[i]) < CharRank(kb[i])

StrLess(x, y) == CharsLess(Chars(x), Chars(y))

\* fields.join(',')
RECURSIVE JoinChars(_)
JoinChars(fields) ==
  IF Len(fields) = 0 THEN <<>>
  ELSE IF Len(fields) = 1 THEN Chars(fields[1])
  ELSE Chars(fields[1]) \o <<",">> \o JoinChars(Tail(fields))

\* Mutant: sortBy leaves the array as it is.
SortByUnsorted(arr, keys) == arr

\* sortBy(arr, keyFn), with keys[i] the characters of keyFn(arr[i]): the
\* stable sort by ka < kb, elements of equal keys in their input order.
sortBy(arr, keys) ==
  LET before(i, j) == CharsLess(keys[i], keys[j]) \/ (keys[i] = keys[j] /\ i < j)
      rank(i) == 1 + Cardinality({j \in 1..Len(arr) : before(j, i)})
  IN  [k \in 1..Len(arr) |-> arr[CHOOSE i \in 1..Len(arr) : rank(i) = k]]

----------------------------------------------------------------------------
(* Functional dependencies (inferFds.ts).                                  *)

FD(det, dep, model, source) ==
  [determinant |-> det, dependent |-> dep, model |-> model, source |-> source]

\* Mutant: the FDs are not filtered by model.
ModelFdsUnfiltered(fdList, model) == fdList

\* const modelFds = fds.filter((fd) => fd.model === modelName)
ModelFds(fdList, model) == SelectSeq(fdList, LAMBDA fd : fd.model = model)

\* fd.determinant.every((attr) => closure.has(attr))
DeterminantHeld(fd, clo) == \A i \in 1..Len(fd.determinant) : fd.determinant[i] \in clo

\* for (const dep of fd.dependent) { if (!closure.has(dep)) { add; changed = true } }
RECURSIVE AddDependents(_, _, _)
AddDependents(st, dependent, i) ==
  IF i > Len(dependent) THEN st
  ELSE IF dependent[i] \notin st.closure
       THEN AddDependents([closure |-> st.closure \cup {dependent[i]}, changed |-> TRUE],
                          dependent, i + 1)
       ELSE AddDependents(st, dependent, i + 1)

\* Mutant: an FD is taken as already applied when its first dependent is in the closure.
ForBodySkipApplied(st, fd) ==
  IF DeterminantHeld(fd, st.closure) /\ fd.dependent[1] \notin st.closure
  THEN AddDependents(st, fd.dependent, 1)
  ELSE st

\* Mutant: the dependents are added but the pass is never flagged as changed.
ForBodyNoFlag(st, fd) ==
  IF DeterminantHeld(fd, st.closure)
  THEN [closure |-> st.closure \cup Range(fd.dependent), changed |-> st.changed]
  ELSE st

\* Mutant: every applicable FD flags the pass as changed.
ForBodyAlwaysFlag(st, fd) ==
  IF DeterminantHeld(fd, st.closure)
  THEN [closure |-> st.closure \cup Range(fd.dependent), changed |-> TRUE]
  ELSE st

\* The body of `for (const fd of modelFds)`: st is <closure, changed>.
ForBody(st, fd) ==
  IF DeterminantHeld(fd, st.closure)
  THEN AddDependents(st, fd.dependent, 1)
  ELSE st

RECURSIVE ForLoop(_, _, _)
ForLoop(st, modelFds, i) ==
  IF i > Len(modelFds) THEN st
  ELSE ForLoop(ForBody(st, modelFds[i]), modelFds, i + 1)

\* One iteration of `while (changed)`: changed = false, then the for loop.
WhilePass(clo, modelFds) == ForLoop([closure |-> clo, changed |-> FALSE], modelFds, 1)

RECURSIVE WhileLoop(_, _)
WhileLoop(clo, modelFds) ==
  LET st == WhilePass(clo, modelFds)
  IN  IF st.changed THEN WhileLoop(st.closure, modelFds) ELSE st.closure

\* Mutant: the closure starts empty instead of from the attributes.
AttributeClosureFromEmpty(attrs, fdList, model) == WhileLoop({}, ModelFds(fdList, model))

attributeClosure(attrs, fdList, model) == WhileLoop(Range(attrs), ModelFds(fdList, model))

\* allFields.every((f) => closure.has(f))
isSuperkey(attrs, allFields, fdList, model) ==
  LET clo == attributeClosure(attrs, fdList, model)
  IN  \A i \in 1..Len(allFields) : allFields[i] \in clo

----------------------------------------------------------------------------
(* Bounds and input pools of the closure specification.                    *)

FieldPool == {"a", "b", "c"}
ModelPool == {"T", "U"}
MaxFds == 2

\* Field lists of 1 or 2 fields in ascending order.
AscLists == {s \in SeqsOf(FieldPool, 1, 2) : \A i \in 1..(Len(s) - 1) : StrLess(s[i], s[i + 1])}

\* Attribute lists: the empty list, the ascending lists, a repeat, a descending
\* list and the whole field pool.
AttrLists == {<<>>, <<"a", "a">>, <<"b", "a">>, <<"a", "b", "c">>} \cup AscLists

\* Dependent lists: one field, or the pair a, c.
DepLists == SeqsOf(FieldPool, 1, 1) \cup {<<"a", "c">>}

\* FDs of model T (single-field determinants tagged fk, as a foreign key on one
\* column is) and two FDs of model U.
ClosureFdPool ==
  {FD(det, dep, "T", IF Len(det) = 1 THEN "fk" ELSE "invariant") :
     det \in AscLists \ {<<"a", "c">>}, dep \in DepLists}
  \cup {FD(<<"a">>, <<"b">>, "U", "invariant"), FD(<<"a", "b">>, <<"c">>, "U", "pk")}

----------------------------------------------------------------------------
(* attributeClosure as a state machine: one step per `while` iteration.    *)

ClosureInit ==
  /\ attributes \in AttrLists
  /\ fds \in SeqsOf(ClosureFdPool, 0, MaxFds)
  /\ modelName \in ModelPool
  /\ closure = Range(attributes)        \* new Set(attributes)
  /\ changed = TRUE
  /\ pc = "while"
  /\ AuditIdle

WhileIteration ==
  /\ pc = "while"
  /\ changed
  /\ LET st == WhilePass(closure, ModelFds(fds, modelName))
     IN  /\ closure' = st.closure
         /\ changed' = st.changed
  /\ UNCHANGED <<pc, attributes, fds, modelName, auditVars, mainVars>>

ReturnClosure ==
  /\ pc = "while"
  /\ ~changed
  /\ pc' = "done"
  /\ UNCHANGED <<closureVars, auditVars, mainVars>>

ClosureNext == WhileIteration \/ ReturnClosure

SpecClosure == ClosureInit /\ [][ClosureNext]_vars

\* The code is synchronous: a loop that can step does step.
SpecClosureFair == SpecClosure /\ WF_vars(ClosureNext)

----------------------------------------------------------------------------
(* Properties of attributeClosure and isSuperkey (SpecClosure).            *)

\* S is closed under the FDs of `model`: an FD whose determinant is in S has
\* its dependents in S.
IsClosedUnder(S, fdList, model) ==
  \A i \in 1..Len(fdList) :
    (fdList[i].model = model /\ Range(fdList[i].determinant) \subseteq S)
      => Range(fdList[i].dependent) \subseteq S

\* Some list of the elements of S (the order is lost in `new Set`).
SetToList(S) == CHOOSE s \in [1..Cardinality(S) -> S] : Range(s) = S

\* C1: attributeClosure(X, F, M) returns the least set that contains X and is
\* closed under the FDs of F whose model is M; FDs of other models add
\* nothing, and when no FD of M applies to X the result is exactly X.
C1_LeastClosedSet ==
  pc = "done" =>
    /\ Range(attributes) \subseteq closure
    /\ IsClosedUnder(closure, fds, modelName)
    /\ \A S \in SUBSET FieldPool :
         (Range(attributes) \subseteq S /\ IsClosedUnder(S, fds, modelName))
           => closure \subseteq S
    /\ (\A i \in 1..Len(fds) :
          fds[i].model = modelName
            => ~(Range(fds[i].determinant) \subseteq Range(attributes)))
         => closure = Range(attributes)

\* The closure grew by two fields while an applicable FD of another model was
\* left out.
C1_Witness ==
  /\ pc = "done"
  /\ Cardinality(closure) >= Cardinality(Range(attributes)) + 2
  /\ \E i \in 1..Len(fds) :
       /\ fds[i].model # modelName
       /\ Range(fds[i].determinant) \subseteq closure

\* C2: the fixed-point loop terminates, also on cyclic FD sets: a pass either
\* adds a field and flags the change, or changes nothing and ends the loop.
C2_LoopTerminates ==
  /\ [][(pc = "while" /\ pc' = "while")
          => \/ changed' /\ closure \subseteq closure' /\ closure' # closure
             \/ ~changed' /\ closure' = closure]_vars
  /\ <>(pc = "done")

\* The loop has returned from {a} on the cyclic FD list a -> b, b -> a.
C2_Witness ==
  /\ pc = "done"
  /\ modelName = "T"
  /\ attributes = <<"a">>
  /\ Len(fds) = 2
  /\ fds[1].model = "T" /\ fds[1].determinant = <<"a">> /\ fds[1].dependent = <<"b">>
  /\ fds[2].model = "T" /\ fds[2].determinant = <<"b">> /\ fds[2].dependent = <<"a">>
  /\ closure = {"a", "b"}

\* C3: closure monotonicity: X a subset of Y implies
\* attributeClosure(X, F, M) a subset of attributeClosure(Y, F, M).
C3_ClosureMonotone ==
  pc = "done" =>
    \A Y \in AttrLists :
      Range(attributes) \subseteq Range(Y)
        => closure \subseteq attributeClosure(Y, fds, modelName)

\* X is a proper subset of some Y, X's closure is larger than X and smaller
\* than Y's closure.
C3_Witness ==
  /\ pc = "done"
  /\ closure # Range(attributes)
  /\ \E Y \in AttrLists :
       /\ Range(attributes) \subseteq Range(Y)
       /\ Range(attributes) # Range(Y)
       /\ attributeClosure(Y, fds, modelName) # closure

\* C4: closure idempotence: the closure of a closure is that closure.
C4_ClosureIdempotent ==
  pc = "done" => attributeClosure(SetToList(closure), fds, modelName) = closure

\* A closure that took two productive passes to compute.
C4_Witness ==
  /\ pc = "done"
  /\ LET st == WhilePass(Range(attributes), ModelFds(fds, modelName))
     IN  st.closure # Range(attributes) /\ st.closure # closure

\* C8: isSuperkey(A, allFields, F, M) is true exactly when allFields is inside
\* attributeClosure(A, F, M), and every field list is a superkey of itself.
C8_SuperkeyCovers ==
  pc = "done" =>
    /\ \A all \in AttrLists :
         isSuperkey(attributes, all, fds, modelName) <=> Range(all) \subseteq closure
    /\ isSuperkey(attributes, attributes, fds, modelName)

\* isSuperkey is true of a field list that the attributes reach only through
\* FDs, and false of another one.
C8_Witness ==
  /\ pc = "done"
  /\ \E all \in AttrLists :
       /\ isSuperkey(attributes, all, fds, modelName)
       /\ ~(Range(all) \subseteq Range(attributes))
  /\ \E all \in AttrLists : ~isSuperkey(attributes, all, fds, modelName)

----------------------------------------------------------------------------
(* The constraint contract (reportTypes.ts).                               *)

FieldContract(name, type) ==
  [name |-> name, type |-> type, isNullable |-> FALSE, hasDefault |-> FALSE, isList |-> FALSE]

PrimaryKeyConstraint(fields) == [fields |-> fields, isComposite |-> Len(fields) > 1]

UniqueConstraint(fields) == [name |-> NULL, fields |-> fields, isComposite |-> Len(fields) > 1]

ForeignKeyConstraint(fields, referencedModel, referencedFields) ==
  [fields |-> fields, referencedModel |-> referencedModel,
   referencedFields |-> referencedFields, onDelete |-> "Cascade", onUpdate |-> "Cascade"]

\* A ModelContract with String fields; pk is None or Some(field list).
ModelContract(name, fieldNames, pk, uniques, fks) ==
  [name |-> name,
   fields |-> [i \in 1..Len(fieldNames) |-> FieldContract(fieldNames[i], "String")],
   primaryKey |-> IF pk = None THEN None ELSE Some(PrimaryKeyConstraint(Val(pk))),
   uniqueConstraints |-> [i \in 1..Len(uniques) |-> UniqueConstraint(uniques[i])],
   foreignKeys |-> fks]

\* model.fields.map((f) => f.name)
FieldNames(model) == [i \in 1..Len(model.fields) |-> model.fields[i].name]

\* contract.models.find((m) => m.name === modelName)
FindModel(con, name) == Find(SelectSeq(con.models, LAMBDA m : m.name = name))

----------------------------------------------------------------------------
(* The parsed schema (prismaSchema/types.ts) and extractContract           *)
(* (prismaSchema/extractContract.ts).                                      *)

\* An AuditField of kind scalar.
ScalarField(name, type, isId, isUnique) ==
  [name |-> name, type |-> type, kind |-> "scalar", isList |-> FALSE, isRequired |-> TRUE,
   isId |-> isId, isUnique |-> isUnique, hasDefaultValue |-> FALSE,
   relationName |-> NULL, relationFromFields |-> None, relationToFields |-> None,
   relationOnDelete |-> NULL, relationOnUpdate |-> NULL, documentation |-> NULL]

\* An AuditField of kind object: a relation to the model `type`.
RelationField(name, type, fromFields, toFields, onDelete) ==
  [name |-> name, type |-> type, kind |-> "object", isList |-> FALSE, isRequired |-> TRUE,
   isId |-> FALSE, isUnique |-> FALSE, hasDefaultValue |-> FALSE,
   relationName |-> NULL, relationFromFields |-> Some(fromFields),
   relationToFields |-> Some(toFields),
   relationOnDelete |-> onDelete, relationOnUpdate |-> NULL, documentation |-> NULL]

AuditUniqueIndex(name, fields) == [name |-> name, fields |-> fields]

\* An AuditModel; primaryKey is None or Some(field list) (@@id).
AuditModel(name, fields, primaryKey, uniqueIndexes) ==
  [name |-> name, fields |-> fields,
   primaryKey |-> IF primaryKey = None THEN None ELSE Some([fields |-> Val(primaryKey)]),
   uniqueIndexes |-> uniqueIndexes, documentation |-> NULL]

VALID_REFERENTIAL_ACTIONS == {"Cascade", "Restrict", "NoAction", "SetNull", "SetDefault"}

toReferentialAction(value, fallback) ==
  IF value # NULL /\ value \in VALID_REFERENTIAL_ACTIONS THEN value ELSE fallback

\* dmmf.datamodel.models.map(...): a relation list that is absent or empty
\* becomes null, the other members are copied.
parseSchema(datamodel) ==
  [models |->
     [i \in 1..Len(datamodel.models) |->
        LET model == datamodel.models[i]
        IN  [name |-> model.name,
             fields |->
               [k \in 1..Len(model.fields) |->
                  LET field == model.fields[k]
                  IN  [name |-> field.name, type |-> field.type, kind |-> field.kind,
                       isList |-> field.isList, isRequired |-> field.isRequired,
                       isId |-> field.isId, isUnique |-> field.isUnique,
                       hasDefaultValue |-> field.hasDefaultValue,
                       relationName |-> field.relationName,
                       relationFromFields |->
                         IF field.relationFromFields # None
                              /\ Len(Val(field.relationFromFields)) > 0
                         THEN field.relationFromFields ELSE None,
                       relationToFields |->
                         IF field.relationToFields # None
                              /\ Len(Val(field.relationToFields)) > 0
                         THEN field.relationToFields ELSE None,
                       relationOnDelete |-> field.relationOnDelete,
                       relationOnUpdate |-> field.relationOnUpdate,
                       documentation |-> field.documentation]],
             primaryKey |-> IF model.primaryKey # None
                            THEN Some([fields |-> Val(model.primaryKey).fields])
                            ELSE None,
             uniqueIndexes |->
               [k \in 1..Len(model.uniqueIndexes) |->
                  [name |-> model.uniqueIndexes[k].name,
                   fields |-> model.uniqueIndexes[k].fields]],
             documentation |-> model.documentation]]]

extractFieldContract(field) ==
  [name |-> field.name, type |-> field.type, isNullable |-> ~field.isRequired,
   hasDefault |-> field.hasDefaultValue, isList |-> field.isList]

extractPrimaryKey(model) ==
  IF model.primaryKey # None
  THEN Some([fields |-> Val(model.primaryKey).fields,
             isComposite |-> Len(Val(model.primaryKey).fields) > 1])
  ELSE LET idField == Find(SelectSeq(model.fields, LAMBDA f : f.isId))
       IN  IF idField # None
           THEN Some([fields |-> <<Val(idField).name>>, isComposite |-> FALSE])
           ELSE None

extractUniqueConstraints(model) ==
  LET single == SelectSeq(model.fields, LAMBDA f : f.isUnique /\ f.kind # "object")
      constraints ==
        [i \in 1..Len(single) |->
           [name |-> NULL, fields |-> <<single[i].name>>, isComposite |-> FALSE]]
        \o [i \in 1..Len(model.uniqueIndexes) |->
              [name |-> model.uniqueIndexes[i].name, fields |-> model.uniqueIndexes[i].fields,
               isComposite |-> Len(model.uniqueIndexes[i].fields) > 1]]
  IN  sortBy(constraints, [i \in 1..Len(constraints) |-> JoinChars(constraints[i].fields)])

extractForeignKeys(model) ==
  LET relations ==
        SelectSeq(model.fields,
                  LAMBDA f : /\ f.kind = "object"
                             /\ f.relationFromFields # None
                             /\ Len(Val(f.relationFromFields)) > 0
                             /\ f.relationToFields # None
                             /\ Len(Val(f.relationToFields)) > 0)
      fks == [i \in 1..Len(relations) |->
                [fields |-> Val(relations[i].relationFromFields),
                 referencedModel |-> relations[i].type,
                 referencedFields |-> Val(relations[i].relationToFields),
                 onDelete |-> toReferentialAction(relations[i].relationOnDelete, "Cascade"),
                 onUpdate |-> toReferentialAction(relations[i].relationOnUpdate, "Cascade")]]
  IN  sortBy(fks, [i \in 1..Len(fks) |-> JoinChars(fks[i].fields)])

extractModelContract(model) ==
  LET scalarFields == SelectSeq(model.fields, LAMBDA f : f.kind # "object")
      sorted == sortBy(scalarFields, [i \in 1..Len(scalarFields) |-> Chars(scalarFields[i].name)])
  IN  [name |-> model.name,
       fields |-> [i \in 1..Len(sorted) |-> extractFieldContract(sorted[i])],
       primaryKey |-> extractPrimaryKey(model),
       uniqueConstraints |-> extractUniqueConstraints(model),
       foreignKeys |-> extractForeignKeys(model)]

extractContract(parsedResult) ==
  LET sorted == sortBy(parsedResult.models,
                       [i \in 1..Len(parsedResult.models) |-> Chars(parsedResult.models[i].name)])
  IN  [models |-> [i \in 1..Len(sorted) |-> extractModelContract(sorted[i])]]

----------------------------------------------------------------------------
(* inferFunctionalDependencies (inferFds.ts).                              *)

\* allFieldNames.filter((f) => !keyFields.includes(f))
\* Mutant: the last field outside the key is left out.
FieldsOutsideButLast(allFieldNames, keyFields) ==
  LET outside == SelectSeq(allFieldNames, LAMBDA f : ~Includes(keyFields, f))
  IN  SubSeq(outside, 1, Len(outside) - 1)

FieldsOutside(allFieldNames, keyFields) ==
  SelectSeq(allFieldNames, LAMBDA f : ~Includes(keyFields, f))

\* Mutant: the PK FD is emitted also when nothing lies outside the key.
PkFdsEvenIfEmpty(model) ==
  IF model.primaryKey # None
  THEN <<FD(Val(model.primaryKey).fields,
            FieldsOutside(FieldNames(model), Val(model.primaryKey).fields), model.name, "pk")>>
  ELSE <<>>

\* PK -> all other fields
PkFds(model) ==
  IF model.primaryKey # None
  THEN LET pkFields == Val(model.primaryKey).fields
           dependent == FieldsOutside(FieldNames(model), pkFields)
       IN  IF Len(dependent) > 0 THEN <<FD(pkFields, dependent, model.name, "pk")>> ELSE <<>>
  ELSE <<>>

\* Mutant: no FD is inferred from the unique constraints.
AddUniqueFdsNone(model) == <<>>

\* addUniqueFds: unique -> all other fields
addUniqueFds(model) ==
  Flat([i \in 1..Len(model.uniqueConstraints) |->
          LET uq == model.uniqueConstraints[i]
              dependent == FieldsOutside(FieldNames(model), uq.fields)
          IN  IF Len(dependent) > 0
              THEN <<FD(uq.fields, dependent, model.name, "unique")>>
              ELSE <<>>])

\* FK -> referenced fields
FkFds(model) ==
  [i \in 1..Len(model.foreignKeys) |->
     FD(model.foreignKeys[i].fields, model.foreignKeys[i].referencedFields, model.name, "fk")]

\* The FDs pushed by one iteration of `for (const model of contract.models)`.
InferModelFds(model) == PkFds(model) \o addUniqueFds(model) \o FkFds(model)

inferFunctionalDependencies(con) ==
  Flat([i \in 1..Len(con.models) |-> InferModelFds(con.models[i])])

----------------------------------------------------------------------------
(* extractCandidateKeys (computeKeys.ts).                                  *)

CandidateKey(fields, model, source) == [fields |-> fields, model |-> model, source |-> source]

\* Mutant: only the primary key is a candidate key.
ExtractCandidateKeysPkOnly(con, name) ==
  LET found == FindModel(con, name)
  IN  IF found = None \/ Val(found).primaryKey = None THEN <<>>
      ELSE <<CandidateKey(Val(Val(found).primaryKey).fields, name, "pk")>>

extractCandidateKeys(con, name) ==
  LET found == FindModel(con, name)
  IN  IF found = None THEN <<>>
      ELSE LET model == Val(found)
           IN  (IF model.primaryKey # None
                THEN <<CandidateKey(Val(model.primaryKey).fields, name, "pk")>>
                ELSE <<>>)
               \o [i \in 1..Len(model.uniqueConstraints) |->
                     CandidateKey(model.uniqueConstraints[i].fields, name, "unique")]

----------------------------------------------------------------------------
(* Findings (reportTypes.ts).  The message is kept as the list of the      *)
(* values interpolated into its text; `fix` is a text derived from the     *)
(* same values and is left out.                                            *)

Finding(rule, severity, normalForm, model, field, message) ==
  [rule |-> rule, severity |-> severity, normalForm |-> normalForm,
   model |-> model, field |-> field, message |-> message]

----------------------------------------------------------------------------
(* The invariants file (invariants/schema.ts, invariants/parse.ts).  The   *)
(* record of models is the list of its entries in key order; an entry's    *)
(* functionalDependencies is None or Some(list of <determinant, dependent>).*)

InvariantFd(det, dep) == [determinant |-> det, dependent |-> dep]

InvariantsEntry(model, fdList) == [model |-> model, functionalDependencies |-> fdList]

InvariantsFileOf(invariants, entries) == [invariants |-> invariants, suppress |-> entries]

invariantsToFds(invariants) ==
  Flat([i \in 1..Len(invariants) |->
          LET e == invariants[i]
          IN  IF e.functionalDependencies # None
              THEN [j \in 1..Len(Val(e.functionalDependencies)) |->
                      FD(Val(e.functionalDependencies)[j].determinant,
                         Val(e.functionalDependencies)[j].dependent, e.model, "invariant")]
              ELSE <<>>])

\* Mutant: the set keeps every occurrence.
DistinctKeepsRepeats(s) == s

\* The elements of `new Set(array)` in iteration order: first occurrences.
Distinct(s) ==
  LET firsts == SelectSeq([i \in 1..Len(s) |-> i], LAMBDA i : \A j \in 1..(i - 1) : s[j] # s[i])
  IN  [k \in 1..Len(firsts) |-> s[firsts[k]]]

----------------------------------------------------------------------------
(* generateInvariantsFile (invariants/generate.ts).                        *)

\* Mutant: the names stay in their order.
SortNamesUnsorted(names) == names

\* [...names].sort(): ascending in UTF-16 code units
SortNames(names) == sortBy(names, [i \in 1..Len(names) |-> Chars(names[i])])

\* The values interpolated into the text of generateRule.
generateRule(fd, name) ==
  <<name, IF Len(fd.determinant) = 1 THEN <<fd.determinant[1]>> ELSE fd.determinant>>

\* The case of generateNote and the determinant it joins into the text.
generateNote(fd) ==
  IF fd.source = "pk"
  THEN IF Len(fd.determinant) > 1
       THEN <<"Composite primary key", fd.determinant>>
       ELSE <<"Primary key determines all fields">>
  ELSE IF Len(fd.determinant) > 1
       THEN <<"Composite unique constraint on", fd.determinant>>
       ELSE <<"Unique constraint on", fd.determinant>>

\* Mutant: the FDs of every source are written to the file.
EligibleFdsAll(fdList) == fdList

\* fds.filter((fd) => fd.source === 'pk' || fd.source === 'unique')
EligibleFds(fdList) == SelectSeq(fdList, LAMBDA fd : fd.source = "pk" \/ fd.source = "unique")

\* generateInvariantsFile: the entries of the returned record in key order.
\* The contract parameter is not read.
generateInvariantsFile(con, fdList) ==
  LET eligibleFds == EligibleFds(fdList)
      byModelKeys == Distinct([i \in 1..Len(eligibleFds) |-> eligibleFds[i].model])
      modelNames == SortNames(byModelKeys)
  IN  [m \in 1..Len(modelNames) |->
         LET name == modelNames[m]
             modelFds == SelectSeq(eligibleFds, LAMBDA fd : fd.model = name)
         IN  [model |-> name,
              functionalDependencies |->
                Some([k \in 1..Len(modelFds) |->
                        [determinant |-> SortNames(modelFds[k].determinant),
                         dependent |-> SortNames(modelFds[k].dependent),
                         note |-> generateNote(modelFds[k]),
                         rule |-> generateRule(modelFds[k], name)]])]]

----------------------------------------------------------------------------

\* new Map(contract.models.map((m) => [m.name, m])).get(name): the last model of that name
ModelMapGet(con, name) ==
  IF \E i \in 1..Len(con.models) : con.models[i].name = name
  THEN Some(con.models[CHOOSE i \in 1..Len(con.models) :
                         /\ con.models[i].name = name
                         /\ \A j \in (i + 1)..Len(con.models) : con.models[j].name # name])
  ELSE None

\* The field lists of the PK and of the unique constraints of a model.
ConstraintFieldSets(model) ==
  (IF model.primaryKey # None THEN <<Val(model.primaryKey).fields>> ELSE <<>>)
  \o [i \in 1..Len(model.uniqueConstraints) |-> model.uniqueConstraints[i].fields]

\* The findings of one declared FD of a model of the contract.
\* Mutant: the enforcement check is made whatever fields are unknown.
ValidateFdNoSkip(model, fd) ==
  LET fieldNames == Range(FieldNames(model))
      allReferencedFields == Distinct(fd.determinant \o fd.dependent)
      unknown == SelectSeq(allReferencedFields, LAMBDA f : f \notin fieldNames)
      detSet == Range(fd.determinant)
      sets == ConstraintFieldSets(model)
      isEnforced == \E i \in 1..Len(sets) : \A k \in 1..Len(sets[i]) : sets[i][k] \in detSet
  IN  [i \in 1..Len(unknown) |->
         Finding("INVARIANT_UNKNOWN_FIELD", "warning", "3NF", model.name, unknown[i],
                 <<unknown[i], model.name>>)]
      \o (IF ~isEnforced
          THEN <<Finding("INVARIANT_DETERMINANT_NOT_ENFORCED", "warning", "SCHEMA", model.name,
                         NULL, <<fd.determinant, fd.dependent, model.name>>)>>
          ELSE <<>>)

ValidateFd(model, fd) ==
  LET fieldNames == Range(FieldNames(model))
      allReferencedFields == Distinct(fd.determinant \o fd.dependent)
      unknown == SelectSeq(allReferencedFields, LAMBDA f : f \notin fieldNames)
      hasUnknownDeterminantField ==
        \E i \in 1..Len(unknown) : Includes(fd.determinant, unknown[i])
      detSet == Range(fd.determinant)
      sets == ConstraintFieldSets(model)
      isEnforced == \E i \in 1..Len(sets) : \A k \in 1..Len(sets[i]) : sets[i][k] \in detSet
  IN  [i \in 1..Len(unknown) |->
         Finding("INVARIANT_UNKNOWN_FIELD", "warning", "3NF", model.name, unknown[i],
                 <<unknown[i], model.name>>)]
      \o (IF ~hasUnknownDeterminantField /\ ~isEnforced
          THEN <<Finding("INVARIANT_DETERMINANT_NOT_ENFORCED", "warning", "SCHEMA", model.name,
                         NULL, <<fd.determinant, fd.dependent, model.name>>)>>
          ELSE <<>>)

validateInvariantsAgainstContract(invariants, con) ==
  Flat([i \in 1..Len(invariants) |->
          LET e == invariants[i]
              model == ModelMapGet(con, e.model)
          IN  IF model = None
              THEN <<Finding("INVARIANT_UNKNOWN_MODEL", "warning", "3NF", e.model, NULL,
                             <<e.model>>)>>
              ELSE IF e.functionalDependencies # None
                   THEN Flat([j \in 1..Len(Val(e.functionalDependencies)) |->
                                ValidateFd(Val(model), Val(e.functionalDependencies)[j])])
                   ELSE <<>>])

----------------------------------------------------------------------------
(* check3nf (normalizeChecks/check3nf.ts).                                 *)

\* Mutant: the FDs of every source are checked.
CheckableFdsAnySource(fdList) == fdList

\* fds.filter((fd) => fd.source === 'invariant')
CheckableFds(fdList) == SelectSeq(fdList, LAMBDA fd : fd.source = "invariant")

\* Mutant: the FK FDs stay among the FDs of the superkey test.
IntraModelFdsAll(fdList) == fdList

\* Mutant: the declared FDs are left out of the superkey check.
IntraModelFdsSchemaOnly(fdList) ==
  SelectSeq(fdList, LAMBDA fd : fd.source # "fk" /\ fd.source # "invariant")

\* fds.filter((fd) => fd.source !== 'fk')
IntraModelFds(fdList) == SelectSeq(fdList, LAMBDA fd : fd.source # "fk")

\* new Set(candidateKeys.flatMap((k) => [...k.fields]))
CandidateKeyFields(con, name) ==
  LET keys == extractCandidateKeys(con, name)
  IN  UNION {Range(keys[i].fields) : i \in 1..Len(keys)}

\* The finding of one dependent of a checked FD, if any.
DependentFinding(con, fd, allFields, dep) ==
  IF Includes(fd.determinant, dep) THEN <<>>
  ELSE IF ~Includes(allFields, dep) THEN <<>>
  ELSE IF dep \in CandidateKeyFields(con, fd.model)
       THEN <<Finding("BCNF_VIOLATION", "info", "BCNF", fd.model, dep, <<fd.determinant, dep>>)>>
       ELSE <<Finding("NF3_VIOLATION", "error", "3NF", fd.model, dep, <<fd.determinant, dep>>)>>

\* One iteration of `for (const fd of checkableFds)`.
Check3nfFd(con, fd, intraModelFds) ==
  LET model == FindModel(con, fd.model)
  IN  IF model = None THEN <<>>
      ELSE LET allFields == FieldNames(Val(model))
           IN  IF isSuperkey(fd.determinant, allFields, intraModelFds, fd.model) THEN <<>>
               ELSE Flat([i \in 1..Len(fd.dependent) |->
                            DependentFinding(con, fd, allFields, fd.dependent[i])])

check3nf(con, fdList) ==
  LET checkableFds == CheckableFds(fdList)
      intraModelFds == IntraModelFds(fdList)
  IN  Flat([i \in 1..Len(checkableFds) |-> Check3nfFd(con, checkableFds[i], intraModelFds)])

----------------------------------------------------------------------------
(* check1nf (normalizeChecks/check1nf.ts).                                 *)

\* String.prototype.toLowerCase on one character (the `i` flag)
LowerChar(ch) ==
  IF \E i \in 1..Len(UpperCase) : UpperCase[i] = ch
  THEN LowerCase[CHOOSE i \in 1..Len(UpperCase) : UpperCase[i] = ch]
  ELSE ch

IsDigit(ch) == \E i \in 1..Len(Digits) : Digits[i] = ch

EndsWithIgnoreCase(cs, suffix) ==
  /\ Len(cs) >= Len(suffix)
  /\ \A i \in 1..Len(suffix) : LowerChar(cs[Len(cs) - Len(suffix) + i]) = suffix[i]

ListSuffixes ==
  {<<"i", "d", "s">>, <<"l", "i", "s", "t">>, <<"c", "s", "v">>, <<"a", "r", "r", "a", "y">>,
   <<"t", "a", "g", "s">>, <<"i", "t", "e", "m", "s">>, <<"v", "a", "l", "u", "e", "s">>}

\* LIST_IN_STRING_PATTERN.test(name)
MatchesListInString(name) == \E suffix \in ListSuffixes : EndsWithIgnoreCase(Chars(name), suffix)

\* REPEATING_GROUP_PATTERN.exec(name): the length of group 1, the shortest
\* non-empty prefix followed only by digits (at least one); 0 without a match.
RepeatingGroupBaseLen(cs) ==
  LET fits(k) == k >= 1 /\ k < Len(cs) /\ \A j \in (k + 1)..Len(cs) : IsDigit(cs[j])
  IN  IF \E k \in 1..Len(cs) : fits(k)
      THEN CHOOSE k \in 1..Len(cs) : fits(k) /\ \A j \in 1..(k - 1) : ~fits(j)
      ELSE 0

\* match[1] of a matching field name
BaseName(name) == SubSeq(Chars(name), 1, RepeatingGroupBaseLen(Chars(name)))

checkListInString(model) ==
  Flat([i \in 1..Len(model.fields) |->
          LET field == model.fields[i]
          IN  IF field.type = "String" /\ MatchesListInString(field.name)
              THEN <<Finding("NF1_LIST_IN_STRING_SUSPECTED", "warning", "1NF", model.name,
                             field.name, <<field.name>>)>>
              ELSE <<>>])

\* Mutant: a group of two or more fields is flagged whatever their types.
CheckRepeatingGroupsAnyType(model) ==
  LET matching == SelectSeq(model.fields, LAMBDA f : RepeatingGroupBaseLen(Chars(f.name)) > 0)
      bases == Distinct([i \in 1..Len(matching) |-> BaseName(matching[i].name)])
  IN  Flat([b \in 1..Len(bases) |->
              LET fields == SelectSeq(matching, LAMBDA f : BaseName(f.name) = bases[b])
              IN  IF Len(fields) >= 2
                  THEN <<Finding("NF1_REPEATING_GROUP_SUSPECTED", "warning", "1NF", model.name,
                                 NULL, <<[i \in 1..Len(fields) |-> fields[i].name], bases[b]>>)>>
                  ELSE <<>>])

checkRepeatingGroups(model) ==
  LET matching == SelectSeq(model.fields, LAMBDA f : RepeatingGroupBaseLen(Chars(f.name)) > 0)
      \* the keys of `groups` in insertion order
      bases == Distinct([i \in 1..Len(matching) |-> BaseName(matching[i].name)])
  IN  Flat([b \in 1..Len(bases) |->
              LET fields == SelectSeq(matching, LAMBDA f : BaseName(f.name) = bases[b])
              IN  IF Len(fields) >= 2 /\ \A i \in 1..Len(fields) : fields[i].type = fields[1].type
                  THEN <<Finding("NF1_REPEATING_GROUP_SUSPECTED", "warning", "1NF", model.name,
                                 NULL, <<[i \in 1..Len(fields) |-> fields[i].name], bases[b]>>)>>
                  ELSE <<>>])

checkJsonRelation(model) ==
  Flat([i \in 1..Len(model.fields) |->
          LET field == model.fields[i]
          IN  IF field.type = "Json"
              THEN <<Finding("NF1_JSON_RELATION_SUSPECTED", "info", "1NF", model.name,
                             field.name, <<field.name>>)>>
              ELSE <<>>])

check1nf(con) ==
  Flat([i \in 1..Len(con.models) |->
          checkListInString(con.models[i]) \o checkRepeatingGroups(con.models[i])
            \o checkJsonRelation(con.models[i])])

----------------------------------------------------------------------------
(* check2nf (normalizeChecks/check2nf.ts).                                 *)

\* Mutant: a determinant that is the whole primary key counts as a part of it.
CheckPartialDependencyAnySubset(model, pkFields, fdList) ==
  LET nonKeyFields == FieldsOutside(FieldNames(model), pkFields)
      fkFds == SelectSeq(fdList, LAMBDA fd : fd.model = model.name /\ fd.source = "fk")
  IN  Flat([i \in 1..Len(fkFds) |->
              LET fkFd == fkFds[i]
                  suspectedFields == FieldsOutside(nonKeyFields, fkFd.determinant)
              IN  IF \A k \in 1..Len(fkFd.determinant) : Includes(pkFields, fkFd.determinant[k])
                  THEN [k \in 1..Len(suspectedFields) |->
                          Finding("NF2_PARTIAL_DEPENDENCY_SUSPECTED", "warning", "2NF", model.name,
                                  suspectedFields[k],
                                  <<suspectedFields[k], model.name, fkFd.determinant>>)]
                  ELSE <<>>])

checkPartialDependency(model, pkFields, fdList) ==
  LET nonKeyFields == FieldsOutside(FieldNames(model), pkFields)
      fkFds == SelectSeq(fdList, LAMBDA fd : fd.model = model.name /\ fd.source = "fk")
  IN  Flat([i \in 1..Len(fkFds) |->
              LET fkFd == fkFds[i]
                  isProperSubset ==
                    /\ Len(fkFd.determinant) < Len(pkFields)
                    /\ \A k \in 1..Len(fkFd.determinant) : Includes(pkFields, fkFd.determinant[k])
                  suspectedFields == FieldsOutside(nonKeyFields, fkFd.determinant)
              IN  IF isProperSubset
                  THEN [k \in 1..Len(suspectedFields) |->
                          Finding("NF2_PARTIAL_DEPENDENCY_SUSPECTED", "warning", "2NF", model.name,
                                  suspectedFields[k],
                                  <<suspectedFields[k], model.name, fkFd.determinant>>)]
                  ELSE <<>>])

checkJoinTableDuplicatedAttr(model, pkFields) ==
  LET fkFieldSets == Flat([i \in 1..Len(model.foreignKeys) |-> model.foreignKeys[i].fields])
      allPkFieldsAreFk == \A k \in 1..Len(pkFields) : Includes(fkFieldSets, pkFields[k])
      extraFields ==
        SelectSeq(FieldNames(model),
                  LAMBDA name : ~Includes(pkFields, name) /\ ~Includes(fkFieldSets, name))
  IN  IF allPkFieldsAreFk /\ Len(extraFields) > 0
      THEN <<Finding("NF2_JOIN_TABLE_DUPLICATED_ATTR_SUSPECTED", "warning", "2NF", model.name,
                     NULL, <<model.name, extraFields>>)>>
      ELSE <<>>

check2nf(con, fdList) ==
  Flat([i \in 1..Len(con.models) |->
          LET model == con.models[i]
              keys == extractCandidateKeys(con, model.name)
              compositePk == Find(SelectSeq(keys, LAMBDA k : k.source = "pk" /\ Len(k.fields) > 1))
          IN  IF compositePk # None
              THEN checkPartialDependency(model, Val(compositePk).fields, fdList)
                     \o checkJoinTableDuplicatedAttr(model, Val(compositePk).fields)
              ELSE <<>>])

----------------------------------------------------------------------------
(* checkSoftDelete (normalizeChecks/checkSoftDelete.ts).                   *)

\* Mutant: the pairing takes a deleted_at field of any type for the
\* soft-delete field.
CheckSoftDeleteModelAnyType(model) ==
  LET softDeleteField ==
        Find(SelectSeq(model.fields, LAMBDA f : f.name = "deleted_at" \/ f.name = "deletedAt"))
      deletedByField ==
        Find(SelectSeq(model.fields, LAMBDA f : f.name = "deleted_by" \/ f.name = "deletedBy"))
  IN  IF softDeleteField # None /\ deletedByField = None
      THEN <<Finding("SOFTDELETE_AT_WITHOUT_BY", "info", "SCHEMA", model.name,
                     Val(softDeleteField).name, <<model.name, Val(softDeleteField).name>>)>>
      ELSE IF deletedByField # None /\ softDeleteField = None
           THEN <<Finding("SOFTDELETE_BY_WITHOUT_AT", "info", "SCHEMA", model.name,
                          Val(deletedByField).name, <<model.name, Val(deletedByField).name>>)>>
           ELSE <<>>

\* Mutant: the primary key is checked like a unique constraint.
CheckSoftDeleteModelWithPk(model) ==
  LET softDeleteField ==
        Find(SelectSeq(model.fields,
                       LAMBDA f : (f.name = "deleted_at" \/ f.name = "deletedAt")
                                    /\ f.type = "DateTime"))
      sets == ConstraintFieldSets(model)
  IN  IF softDeleteField # None
      THEN Flat([i \in 1..Len(sets) |->
                   IF ~Includes(sets[i], Val(softDeleteField).name)
                   THEN <<Finding("SOFTDELETE_MISSING_IN_UNIQUE", "warning", "SCHEMA", model.name,
                                  Val(softDeleteField).name,
                                  <<sets[i], model.name, Val(softDeleteField).name>>)>>
                   ELSE <<>>])
      ELSE <<>>

checkSoftDeleteModel(model) ==
  LET softDeleteField ==
        Find(SelectSeq(model.fields,
                       LAMBDA f : (f.name = "deleted_at" \/ f.name = "deletedAt")
                                    /\ f.type = "DateTime"))
      deletedByField ==
        Find(SelectSeq(model.fields, LAMBDA f : f.name = "deleted_by" \/ f.name = "deletedBy"))
      uqs == model.uniqueConstraints
  IN  (IF softDeleteField # None
       THEN Flat([i \in 1..Len(uqs) |->
                    IF ~Includes(uqs[i].fields, Val(softDeleteField).name)
                    THEN <<Finding("SOFTDELETE_MISSING_IN_UNIQUE", "warning", "SCHEMA", model.name,
                                   Val(softDeleteField).name,
                                   <<uqs[i].fields, model.name, Val(softDeleteField).name>>)>>
                    ELSE <<>>])
       ELSE <<>>)
      \o (IF softDeleteField # None /\ deletedByField = None
          THEN <<Finding("SOFTDELETE_AT_WITHOUT_BY", "info", "SCHEMA", model.name,
                         Val(softDeleteField).name, <<model.name, Val(softDeleteField).name>>)>>
          ELSE IF deletedByField # None /\ softDeleteField = None
               THEN <<Finding("SOFTDELETE_BY_WITHOUT_AT", "info", "SCHEMA", model.name,
                              Val(deletedByField).name, <<model.name, Val(deletedByField).name>>)>>
               ELSE <<>>)

checkSoftDelete(con) ==
  Flat([i \in 1..Len(con.models) |-> checkSoftDeleteModel(con.models[i])])

----------------------------------------------------------------------------
(* checkFkIndexes (normalizeChecks/checkFkIndexes.ts).                     *)

\* Mutant: the fields of the foreign key are looked up at any position.
IsLeftmostPrefixAnyPosition(fkFields, constraintFields) ==
  IF Len(fkFields) > Len(constraintFields) THEN FALSE
  ELSE \A i \in 1..Len(fkFields) : Includes(constraintFields, fkFields[i])

isLeftmostPrefix(fkFields, constraintFields) ==
  IF Len(fkFields) > Len(constraintFields) THEN FALSE
  ELSE \A i \in 1..Len(fkFields) : constraintFields[i] = fkFields[i]

\* Mutant: a foreign key counts as covered when the model has its fields.
IsFkCoveredByFieldList(fkFields, model) ==
  \A i \in 1..Len(fkFields) : Includes(FieldNames(model), fkFields[i])

isFkCoveredByConstraint(fkFields, model) ==
  LET constraintFieldArrays == ConstraintFieldSets(model)
  IN  \E i \in 1..Len(constraintFieldArrays) : isLeftmostPrefix(fkFields, constraintFieldArrays[i])

checkFkIndexes(con) ==
  Flat([i \in 1..Len(con.models) |->
          LET model == con.models[i]
          IN  Flat([k \in 1..Len(model.foreignKeys) |->
                      LET fk == model.foreignKeys[k]
                      IN  IF ~isFkCoveredByConstraint(fk.fields, model)
                          THEN <<Finding("FK_MISSING_INDEX", "info", "SCHEMA", model.name,
                                         IF Len(fk.fields) = 1 THEN fk.fields[1] ELSE NULL,
                                         <<fk.fields, model.name, fk.referencedModel>>)>>
                          ELSE <<>>])])

----------------------------------------------------------------------------
(* Suppression (index.ts).  A suppress entry is the list of its characters. *)

\* String.prototype.indexOf(ch), counted from 1; 0 when ch does not occur (-1 in the code)
IndexOf(cs, ch) ==
  IF \E i \in 1..Len(cs) : cs[i] = ch
  THEN CHOOSE i \in 1..Len(cs) : cs[i] = ch /\ \A j \in 1..(i - 1) : cs[j] # ch
  ELSE 0

\* cs.slice(0, idx) for idx = indexOf(...): slice(0, -1) drops the last character
SliceBefore(cs, idx) == IF idx = 0 THEN SubSeq(cs, 1, Len(cs) - 1) ELSE SubSeq(cs, 1, idx - 1)

\* cs.slice(idx + 1) for idx = indexOf(...): slice(0) is the whole string
SliceAfter(cs, idx) == SubSeq(cs, idx + 1, Len(cs))

\* Mutant: an entry with a field part is matched on its model alone.
EntryMatchesModelOnly(finding, entry) ==
  LET colonIdx == IndexOf(entry, ":")
      rule == SliceBefore(entry, colonIdx)
      target == SliceAfter(entry, colonIdx)
      dotIdx == IndexOf(target, ".")
  IN  /\ rule = Chars(finding.rule)
      /\ IF dotIdx = 0 THEN target = Chars(finding.model)
         ELSE SliceBefore(target, dotIdx) = Chars(finding.model)

\* One iteration of `for (const entry of suppress)`: TRUE when it returns true.
EntryMatches(finding, entry) ==
  LET colonIdx == IndexOf(entry, ":")
      rule == SliceBefore(entry, colonIdx)
      target == SliceAfter(entry, colonIdx)
      dotIdx == IndexOf(target, ".")
  IN  /\ rule = Chars(finding.rule)
      /\ IF dotIdx = 0
         THEN target = Chars(finding.model)
         ELSE /\ SliceBefore(target, dotIdx) = Chars(finding.model)
              /\ finding.field # NULL
              /\ SliceAfter(target, dotIdx) = Chars(finding.field)

isSuppressed(finding, entries) == \E i \in 1..Len(entries) : EntryMatches(finding, entries[i])

----------------------------------------------------------------------------
(* audit (index.ts), one step per statement group.  audit is called and    *)
(* parseSchema has read the schema file when pc = "parse"; the function    *)
(* resumes with the ParseResult in a later turn of the event loop.         *)

\* const schemaFds = inferFunctionalDependencies(contract)
AuditInferFds ==
  /\ pc = "infer"
  /\ schemaFds' = inferFunctionalDependencies(contract)
  /\ pc' = "invariants"
  /\ UNCHANGED <<closureVars, mainVars, contract, invariantsFile, allFds,
                 invariantFindings, suppress, allFindings, result>>

\* if (options.invariantsPath !== undefined) { ... }
AuditMergeInvariants ==
  /\ pc = "invariants"
  /\ IF invariantsFile # None
     THEN /\ allFds' = schemaFds \o invariantsToFds(Val(invariantsFile).invariants)
          /\ invariantFindings' =
               validateInvariantsAgainstContract(Val(invariantsFile).invariants, contract)
          /\ suppress' = Val(invariantsFile).suppress
     ELSE /\ allFds' = schemaFds
          /\ invariantFindings' = <<>>
          /\ suppress' = <<>>
  /\ pc' = "checkers"
  /\ UNCHANGED <<closureVars, mainVars, contract, invariantsFile, schemaFds,
                 allFindings, result>>

\* Mutant: the invariant findings come first and the foreign-key findings
\* before the soft-delete findings.
AuditRunCheckersReordered ==
  /\ pc = "checkers"
  /\ allFindings' =
       invariantFindings \o check1nf(contract) \o check2nf(contract, allFds)
         \o check3nf(contract, allFds) \o checkFkIndexes(contract) \o checkSoftDelete(contract)
  /\ pc' = "suppress"
  /\ UNCHANGED <<closureVars, mainVars, contract, invariantsFile, schemaFds,
                 allFds, invariantFindings, suppress, result>>

\* const allFindings = [...check1nf(contract), ..., ...invariantFindings]
AuditRunCheckers ==
  /\ pc = "checkers"
  /\ allFindings' =
       check1nf(contract) \o check2nf(contract, allFds) \o check3nf(contract, allFds)
         \o checkSoftDelete(contract) \o checkFkIndexes(contract) \o invariantFindings
  /\ pc' = "suppress"
  /\ UNCHANGED <<closureVars, mainVars, contract, invariantsFile, schemaFds,
                 allFds, invariantFindings, suppress, result>>

\* The values new Date().toISOString() may take in the runs observed.
Clock == {"2026-01-01T00:00:00.000Z", "2026-01-01T00:00:01.000Z"}

\* The AuditResult of the audit with the given metadata.timestamp.
AuditResult(timestamp) ==
  LET findings == IF Len(suppress) > 0
                  THEN SelectSeq(allFindings, LAMBDA f : ~isSuppressed(f, suppress))
                  ELSE allFindings
  IN  [contract |-> contract,
       findings |-> findings,
       metadata |-> [schemaPath |-> "schema.prisma",
                     timestamp |-> timestamp,
                     modelCount |-> Len(contract.models),
                     findingCount |-> Len(findings)]]

\* The suppress filter and the returned AuditResult.
AuditReturn ==
  /\ pc = "suppress"
  /\ \E timestamp \in (IF noTimestamp THEN {NULL} ELSE Clock) : result' = AuditResult(timestamp)
  /\ pc' = "returned"
  /\ UNCHANGED <<closureVars, mainVars, contract, invariantsFile, schemaFds,
                 allFds, invariantFindings, suppress, allFindings>>

AuditNext == AuditInferFds \/ AuditMergeInvariants \/ AuditRunCheckers \/ AuditReturn

\* const parsed = await parseSchema(options.schemaPath): getDMMF has
\* resolved and audit resumes with the ParseResult.
AuditParseSchema ==
  /\ pc = "parse"
  /\ parsed' = parseSchema(dmmf)
  /\ pc' = "extract"
  /\ UNCHANGED <<closureVars, auditVars, dmmf, noTimestamp, firstRun, failOn, exitCode>>

\* const contract = extractContract(parsed)
AuditExtract ==
  /\ pc = "extract"
  /\ contract' = extractContract(parsed)
  /\ pc' = "infer"
  /\ UNCHANGED <<closureVars, mainVars, invariantsFile, schemaFds, allFds,
                 invariantFindings, suppress, allFindings, result>>

----------------------------------------------------------------------------
(* main (cli.ts): the exit code after an audit that completed.             *)

EXIT_OK == 0
EXIT_ISSUES == 1

severityOrder == [info |-> 0, warning |-> 1, error |-> 2]

\* Mutant: the threshold is met by a less severe finding too.
MainExitCodeAnyFinding ==
  IF failOn # NULL /\ Len(result.findings) > 0 THEN EXIT_ISSUES ELSE EXIT_OK

\* The value main returns once the output is written.
MainExitCode ==
  IF failOn # NULL /\ Len(result.findings) > 0
  THEN LET threshold == severityOrder[failOn]
           hasFailure == \E i \in 1..Len(result.findings) :
                           severityOrder[result.findings[i].severity] >= threshold
       IN  IF hasFailure THEN EXIT_ISSUES ELSE EXIT_OK
  ELSE EXIT_OK

\* Check fail-on threshold
MainExit ==
  /\ pc = "returned"
  /\ exitCode' = MainExitCode
  /\ pc' = "exited"
  /\ UNCHANGED <<closureVars, auditVars, dmmf, parsed, noTimestamp, firstRun, failOn>>

\* The program is run a second time on the same schema, invariants file and
\* options.
MainRerun ==
  /\ pc = "exited"
  /\ firstRun = None
  /\ firstRun' = Some(result)
  /\ pc' = "parse"
  /\ parsed' = None
  /\ contract' = None
  /\ schemaFds' = None
  /\ allFds' = None
  /\ invariantFindings' = None
  /\ suppress' = None
  /\ allFindings' = None
  /\ result' = None
  /\ exitCode' = None
  /\ UNCHANGED <<closureVars, invariantsFile, dmmf, noTimestamp, failOn>>

MainNext == AuditParseSchema \/ AuditExtract \/ AuditNext \/ MainExit \/ MainRerun

\* generateInvariants: const parsed = await parseSchema(options.schemaPath);
\* the function is called when pc = "gparse" and resumes here.
GenerateParseSchema ==
  /\ pc = "gparse"
  /\ parsed' = parseSchema(dmmf)
  /\ pc' = "generate"
  /\ UNCHANGED <<closureVars, auditVars, dmmf, noTimestamp, firstRun, failOn, exitCode>>

\* generateInvariants after the await: the contract is extracted, the FDs
\* are inferred and the generated file is returned.
generateInvariants ==
  /\ pc = "generate"
  /\ contract' = extractContract(parsed)
  /\ result' = generateInvariantsFile(extractContract(parsed),
                                      inferFunctionalDependencies(extractContract(parsed)))
  /\ pc' = "generated"
  /\ UNCHANGED <<closureVars, mainVars, invariantsFile, schemaFds, allFds, invariantFindings,
                 suppress, allFindings>>

\* main in generate mode: the returned file is written to --out and main
\* returns EXIT_OK; the written file has no suppress key.
MainWriteInvariants ==
  /\ pc = "generated"
  /\ invariantsFile' = Some(InvariantsFileOf(result, <<>>))
  /\ exitCode' = EXIT_OK
  /\ pc' = "written"
  /\ UNCHANGED <<closureVars, dmmf, parsed, noTimestamp, firstRun, failOn, contract,
                 schemaFds, allFds, invariantFindings, suppress, allFindings, result>>

\* The schema is audited with the written file as its invariants file: a
\* call of audit, which reads the schema file again.
MainAuditGenerated ==
  /\ pc = "written"
  /\ pc' = "parse"
  /\ parsed' = None
  /\ contract' = None
  /\ result' = None
  /\ exitCode' = None
  /\ UNCHANGED <<closureVars, dmmf, noTimestamp, firstRun, failOn, invariantsFile,
                 schemaFds, allFds, invariantFindings, suppress, allFindings>>

GenerateNext ==
  \/ GenerateParseSchema \/ generateInvariants \/ MainWriteInvariants \/ MainAuditGenerated
  \/ AuditParseSchema \/ AuditExtract \/ AuditNext

\* The state of audit once the contract is extracted.
AuditStart ==
  /\ pc = "infer"
  /\ ClosureIdle
  /\ MainIdle
  /\ schemaFds = None
  /\ allFds = None
  /\ invariantFindings = None
  /\ suppress = None
  /\ allFindings = None
  /\ result = None

----------------------------------------------------------------------------
(* Input pools of the audit specifications.  Contracts are as              *)
(* extractContract returns them: models and fields sorted by name, unique  *)
(* constraints and foreign keys sorted by their joined field lists.        *)

MaxUniques == 1
MaxInvFds == 1
MaxSuppress == 2

\* The order sortBy leaves a list of field lists in.
SortedByJoin(lists) ==
  \A i \in 1..(Len(lists) - 1) : ~CharsLess(JoinChars(lists[i + 1]), JoinChars(lists[i]))

NoRepeats(s) == \A i, j \in 1..Len(s) : s[i] = s[j] => i = j

\* The referenced model D{a PK}.
ModelD == ModelContract("D", <<"a">>, Some(<<"a">>), <<>>, <<>>)

FkToD(field) == ForeignKeyConstraint(<<field>>, "D", <<"a">>)

\* Key field lists over the fields of a model: one or two fields in any
\* order, or all of them.
KeyLists(fieldNames) ==
  {k \in SeqsOf(Range(fieldNames), 1, 2) : NoRepeats(k)} \cup {fieldNames}

UniqueLists(fieldNames) ==
  {u \in SeqsOf(KeyLists(fieldNames), 0, MaxUniques) : SortedByJoin(u)}

FkLists == {<<>>, <<FkToD("b")>>, <<FkToD("a"), FkToD("b")>>}

InferModels ==
  UNION {{ModelContract("E", f, pk, u, fk) :
            pk \in {None} \cup {Some(k) : k \in KeyLists(f)},
            u \in UniqueLists(f), fk \in FkLists} :
         f \in {<<"a", "b">>, <<"a", "b", "c">>}}

\* D with the composite PK (a, b), and E{a, b, c} with one two-field foreign
\* key to it or two, beside every PK and unique constraint of E.
CompositeFkContracts ==
  {<<ModelContract("D", <<"a", "b">>, Some(<<"a", "b">>), <<>>, <<>>),
     ModelContract("E", <<"a", "b", "c">>, pk, u, fk)>> :
     pk \in {None} \cup {Some(k) : k \in KeyLists(<<"a", "b", "c">>)},
     u \in UniqueLists(<<"a", "b", "c">>),
     fk \in {<<ForeignKeyConstraint(<<"a", "b">>, "D", <<"a", "b">>)>>,
             <<ForeignKeyConstraint(<<"b", "a">>, "D", <<"a", "b">>)>>,
             <<ForeignKeyConstraint(<<"a", "b">>, "D", <<"a", "b">>),
               ForeignKeyConstraint(<<"b", "c">>, "D", <<"a", "b">>)>>}}

InferContracts ==
  {<<ModelD, e>> : e \in InferModels}
    \cup {<<e>> : e \in {m \in InferModels : m.foreignKeys = <<>>}}
    \cup CompositeFkContracts

\* Contracts of the generation: those of the inference, and the same with a
\* referenced model D of two fields, whose PK gives an FD.
GenerateContracts ==
  InferContracts
    \cup {<<ModelContract("D", <<"a", "b">>, Some(<<"a">>), <<>>, <<>>), e>> : e \in InferModels}

\* Contracts of the 3NF specification: D and a model E of 3 or 4 fields.
Nf3Contracts ==
  {[models |-> <<ModelD, ModelContract("E", f, pk, u, fk)>>] :
     f \in {<<"a", "b", "c">>, <<"a", "b", "c", "d">>},
     pk \in {None, Some(<<"a">>), Some(<<"a", "b">>), Some(<<"a", "b", "c">>)},
     u \in {<<>>, <<<<"b">>>>, <<<<"b", "c">>>>},
     fk \in {<<>>, <<FkToD("b")>>}}

\* Declared FDs: dependents with a repeat (c, c) and with d, a field that
\* the 3-field models do not have.
InvFdPool ==
  {InvariantFd(det, dep) :
     det \in {<<"a">>, <<"b">>, <<"c">>, <<"a", "b">>, <<"b", "c">>},
     dep \in {<<"a">>, <<"c">>, <<"a", "c">>, <<"c", "c">>, <<"c", "d">>}}

\* Two lists of two FDs that feed each other.
ChainFdLists ==
  {<<InvariantFd(<<"b">>, <<"c">>), InvariantFd(<<"c">>, <<"a">>)>>,
   <<InvariantFd(<<"a">>, <<"c">>), InvariantFd(<<"c">>, <<"a">>)>>}

\* Lists whose determinants name d, alone, next to a known field, and in the
\* dependent too; d is twice in a dependent.
UnknownFieldFdLists ==
  {<<InvariantFd(<<"d">>, <<"c">>)>>,
   <<InvariantFd(<<"d">>, <<"d", "c">>)>>,
   <<InvariantFd(<<"a", "d">>, <<"d", "a">>), InvariantFd(<<"c">>, <<"d", "d">>)>>,
   <<InvariantFd(<<"b", "a">>, <<"c">>), InvariantFd(<<"b", "a">>, <<"c">>)>>}

InvFdLists == SeqsOf(InvFdPool, 1, MaxInvFds) \cup ChainFdLists

\* Invariants: none, E without FDs, FDs of E, and FDs of E after an entry
\* for X, a model that is not in the contract.
Nf3Invariants ==
  {<<>>, <<InvariantsEntry("E", None)>>}
  \cup {<<InvariantsEntry("E", Some(l))>> : l \in InvFdLists}
  \cup {<<InvariantsEntry("X", Some(<<InvariantFd(<<"a">>, <<"c">>)>>)), InvariantsEntry("E", Some(l))>> :
          l \in InvFdLists}

\* Invariants of the validation: E without FDs, FDs of E with known and
\* unknown fields, and the same after an entry for X, a model that is not in
\* the contract.
ValidationInvariants ==
  LET lists == UnknownFieldFdLists \cup ChainFdLists
                 \cup SeqsOf({InvariantFd(det, <<"c", "d">>) :
                                det \in {<<"a">>, <<"b", "c">>, <<"c", "b">>, <<"d", "a">>}},
                             1, MaxInvFds)
  IN  {<<InvariantsEntry("E", None)>>}
        \cup {<<InvariantsEntry("E", Some(l))>> : l \in lists}
        \cup {<<InvariantsEntry("X", Some(<<InvariantFd(<<"a">>, <<"c">>)>>)),
                InvariantsEntry("E", Some(l))>> : l \in lists}

\* The text RULE:Model or RULE:Model.field of a suppress entry.
SuppressEntry(rule, model, field) ==
  Chars(rule) \o <<":">> \o Chars(model)
    \o (IF field = NULL THEN <<>> ELSE <<".">> \o Chars(field))

SuppressRules == {"NF3_VIOLATION", "BCNF_VIOLATION", "FK_MISSING_INDEX"}

SuppressPool ==
  {SuppressEntry(r, m, f) : r \in SuppressRules, m \in {"D", "E"}, f \in {NULL, "b", "c"}}

\* D and E with a foreign key on b: E{a PK, b, c}, E{a, b, c} with the PK
\* (a, b) and a unique (b, c), and E{a, b, c, deleted_at DateTime, tagIds} with
\* the PK (a, b), on which every checker has a finding.
AuditContracts ==
  {[models |-> <<ModelD, ModelContract("E", <<"a", "b", "c">>, Some(<<"a">>), u,
                                       <<FkToD("b")>>)>>] :
     u \in {<<>>, <<<<"b", "c">>>>}}
    \cup
  {[models |-> <<ModelD, ModelContract("E", <<"a", "b", "c">>, Some(<<"a", "b">>),
                                       <<<<"b", "c">>>>, <<FkToD("b")>>)>>],
   [models |->
      <<ModelD,
        [ModelContract("E", <<"a", "b", "c", "deleted_at", "tagIds">>, Some(<<"a", "b">>),
                       <<>>, <<FkToD("b")>>)
           EXCEPT !.fields[4].type = "DateTime"]>>]}

AuditInvariants ==
  {<<InvariantsEntry("E", Some(<<InvariantFd(<<"b">>, <<"c">>)>>))>>,
   <<InvariantsEntry("E", Some(<<InvariantFd(<<"a">>, <<"c">>), InvariantFd(<<"c">>, <<"a">>)>>))>>,
   <<InvariantsEntry("D", Some(<<InvariantFd(<<"b">>, <<"a">>)>>)),
     InvariantsEntry("E", Some(<<InvariantFd(<<"a">>, <<"c">>), InvariantFd(<<"c">>, <<"a">>)>>))>>,
   <<InvariantsEntry("X", Some(<<InvariantFd(<<"a">>, <<"c">>)>>))>>}

AuditFiles ==
  {None} \cup {Some(InvariantsFileOf(i, sp)) :
                 i \in AuditInvariants, sp \in SeqsOf(SuppressPool, 0, MaxSuppress)}

----------------------------------------------------------------------------
(* Parsed schemas of the command-line specification.                       *)

MaxIndexes == 1

\* The datamodel of basic.prisma: User{id @id, email @unique, name?,
\* posts Post[]} and Post{id @id, title, content?, published with a
\* default, author -> User.id, authorId}.
BasicSchema ==
  [models |->
     <<AuditModel("User",
                  <<[ScalarField("id", "Int", TRUE, FALSE) EXCEPT !.hasDefaultValue = TRUE],
                    ScalarField("email", "String", FALSE, TRUE),
                    [ScalarField("name", "String", FALSE, FALSE) EXCEPT !.isRequired = FALSE],
                    [RelationField("posts", "Post", <<>>, <<>>, NULL)
                       EXCEPT !.isList = TRUE, !.relationName = "PostToUser"]>>,
                  None, <<>>),
       AuditModel("Post",
                  <<[ScalarField("id", "Int", TRUE, FALSE) EXCEPT !.hasDefaultValue = TRUE],
                    ScalarField("title", "String", FALSE, FALSE),
                    [ScalarField("content", "String", FALSE, FALSE) EXCEPT !.isRequired = FALSE],
                    [ScalarField("published", "Boolean", FALSE, FALSE)
                       EXCEPT !.hasDefaultValue = TRUE],
                    [RelationField("author", "User", <<"authorId">>, <<"id">>, NULL)
                       EXCEPT !.relationName = "PostToUser"],
                    ScalarField("authorId", "Int", FALSE, FALSE)>>,
                  None, <<>>)>>]

\* D{a @id}
ParsedD == AuditModel("D", <<ScalarField("a", "String", TRUE, FALSE)>>, None, <<>>)

\* Relation fields of E: none, one, or two declared against the order of
\* their local fields; the onDelete of the last one is not a valid action.
RelationLists ==
  {<<>>,
   <<RelationField("r", "D", <<"b">>, <<"a">>, "Restrict")>>,
   <<RelationField("s", "D", <<"c">>, <<"a">>, NULL),
     RelationField("r", "D", <<"a">>, <<"a">>, "Unknown")>>}

IndexPool ==
  {AuditUniqueIndex(NULL, <<"c", "a">>), AuditUniqueIndex(NULL, <<"a", "b">>),
   AuditUniqueIndex("a_key", <<"a">>)}

FieldOrders ==
  {p \in SeqsOf({"a", "b", "c"}, 3, 3) : NoRepeats(p)}

\* E with its scalar fields in every order, around its relation fields.
ParsedE(order, idField, uniqueFields, relations, primaryKey, indexes) ==
  AuditModel("E",
             <<ScalarField(order[1], "String", order[1] = idField, order[1] \in uniqueFields)>>
               \o relations
               \o [i \in 1..2 |-> ScalarField(order[i + 1], "String", order[i + 1] = idField,
                                               order[i + 1] \in uniqueFields)],
             primaryKey, indexes)

ExtractPool ==
  UNION {{[models |-> <<e, ParsedD>>], [models |-> <<ParsedD, e>>]} :
           e \in {ParsedE(order, idField, uniqueFields, relations, primaryKey, indexes) :
                    order \in FieldOrders,
                    idField \in {NULL, "a"},
                    uniqueFields \in {{}, {"b"}, {"a", "c"}},
                    relations \in RelationLists,
                    primaryKey \in {None, Some(<<"b", "a">>)},
                    indexes \in SeqsOf(IndexPool, 0, MaxIndexes)}}

\* S{a @id, ...} with and without the soft-delete fields.
SoftDeleteSchemas ==
  {[models |->
      <<AuditModel("S",
                   <<ScalarField("a", "String", TRUE, FALSE)>> \o at \o by
                     \o <<ScalarField("b", "String", FALSE, isUnique)>>,
                   None, <<>>)>>] :
     at \in {<<>>, <<ScalarField("deleted_at", "DateTime", FALSE, FALSE)>>,
             <<ScalarField("deletedAt", "DateTime", FALSE, FALSE)>>,
             <<ScalarField("deleted_at", "String", FALSE, FALSE)>>},
     by \in {<<>>, <<ScalarField("deleted_by", "String", FALSE, FALSE)>>,
             <<ScalarField("deletedBy", "String", FALSE, FALSE)>>},
     isUnique \in BOOLEAN}

\* E{a @id, b -> D.a, c, tagIds} and D.
SimpleSchema ==
  [models |->
     <<AuditModel("E",
                  <<ScalarField("a", "String", TRUE, FALSE),
                    ScalarField("b", "String", FALSE, FALSE),
                    RelationField("r", "D", <<"b">>, <<"a">>, NULL),
                    ScalarField("c", "String", FALSE, FALSE),
                    ScalarField("tagIds", "String", FALSE, FALSE)>>,
                  None, <<>>),
       ParsedD>>]

\* G{id @id, phone1, phone2, fax1} with and without phone10, the numbered
\* fields of type String or Int.
RepeatingGroupSchemas ==
  {[models |->
      <<AuditModel("G",
                   <<ScalarField("id", "Int", TRUE, FALSE),
                     ScalarField("phone2", t2, FALSE, FALSE),
                     ScalarField("fax1", "String", FALSE, FALSE),
                     ScalarField("phone1", t1, FALSE, FALSE)>> \o more,
                   None, <<>>)>>] :
     t1 \in {"String", "Int"}, t2 \in {"String", "Int"},
     more \in {<<>>, <<ScalarField("phone10", "String", FALSE, FALSE)>>,
               <<ScalarField("phone10", "Int", FALSE, FALSE)>>}}

\* S{a @id, b, deleted_at, ...}: deleted_at as DateTime or String, with or
\* without a DateTime deletedAt, b unique or not, and unique indexes with
\* and without deleted_at.
SoftDeleteUniqueSchemas ==
  {[models |->
      <<AuditModel("S",
                   <<ScalarField("a", "String", TRUE, FALSE),
                     ScalarField("deleted_at", atType, FALSE, FALSE)>> \o at
                     \o <<ScalarField("b", "String", FALSE, isUnique)>>,
                   None, indexes)>>] :
     atType \in {"DateTime", "String"},
     at \in {<<>>, <<ScalarField("deletedAt", "DateTime", FALSE, FALSE)>>},
     isUnique \in BOOLEAN,
     indexes \in {<<>>, <<AuditUniqueIndex(NULL, <<"b", "deleted_at">>)>>,
                  <<AuditUniqueIndex(NULL, <<"b", "deleted_at">>),
                    AuditUniqueIndex(NULL, <<"b", "a">>)>>}}

\* E{a @id, b, c} with two relations on the one local field b, to D and to
\* S, and two composite unique indexes; D{a @id}; S{a @id}.
SharedFkSchema ==
  [models |->
     <<AuditModel("E",
                  <<ScalarField("a", "String", TRUE, FALSE),
                    ScalarField("b", "String", FALSE, FALSE),
                    RelationField("r", "D", <<"b">>, <<"a">>, NULL),
                    RelationField("s", "S", <<"b">>, <<"a">>, NULL),
                    ScalarField("c", "String", FALSE, FALSE)>>,
                  None,
                  <<AuditUniqueIndex(NULL, <<"c", "b">>), AuditUniqueIndex(NULL, <<"b", "c">>)>>),
       ParsedD,
       AuditModel("S", <<ScalarField("a", "String", TRUE, FALSE)>>, None, <<>>)>>]

MainSchemas ==
  {BasicSchema, SimpleSchema, SharedFkSchema} \cup SoftDeleteSchemas
    \cup RepeatingGroupSchemas \cup SoftDeleteUniqueSchemas

\* Invariants files of the command-line runs: b -> c on E, with and without
\* suppress entries.
MainFiles ==
  {None} \cup
  {Some(InvariantsFileOf(<<InvariantsEntry("E", Some(<<InvariantFd(<<"b">>, <<"c">>)>>))>>, sp)) :
     sp \in {<<>>,
             <<SuppressEntry("NF3_VIOLATION", "E", NULL)>>,
             <<SuppressEntry("NF3_VIOLATION", "E", NULL),
               SuppressEntry("NF1_LIST_IN_STRING_SUSPECTED", "E", "tagIds"),
               SuppressEntry("INVARIANT_DETERMINANT_NOT_ENFORCED", "E", NULL),
               SuppressEntry("INVARIANT_UNKNOWN_MODEL", "E", NULL)>>}}

FailOnValues == {NULL, "info", "warning", "error"}

----------------------------------------------------------------------------
(* The specifications of the audit.                                        *)

\* Audits with suppress lists.
Init ==
  /\ contract \in AuditContracts
  /\ invariantsFile \in AuditFiles
  /\ AuditStart

Next == AuditNext

Spec == Init /\ [][Next]_vars

\* Audits over many shapes of declared FDs, nothing suppressed.
Init3nf ==
  /\ contract \in Nf3Contracts
  /\ invariantsFile \in {Some(InvariantsFileOf(i, <<>>)) : i \in Nf3Invariants}
  /\ AuditStart

Spec3nf == Init3nf /\ [][AuditNext]_vars

\* Audits with invariants files that name unknown models and fields.
InitValidate ==
  /\ contract \in Nf3Contracts
  /\ invariantsFile \in {Some(InvariantsFileOf(i, <<>>)) : i \in ValidationInvariants}
  /\ AuditStart

SpecValidate == InitValidate /\ [][AuditNext]_vars

\* Audits over many shapes of keys, without an invariants file.
InitInfer ==
  /\ contract \in {[models |-> ms] : ms \in InferContracts}
  /\ invariantsFile = None
  /\ AuditStart

SpecInfer == InitInfer /\ [][AuditNext]_vars

\* The datamodel of a schema with the given contract: the fields of the
\* contract, one relation field per foreign key, the PK as @@id and the
\* unique constraints as @@unique.
DmmfOf(models) ==
  [models |->
     [i \in 1..Len(models) |->
        AuditModel(models[i].name,
                   [k \in 1..Len(models[i].fields) |->
                      ScalarField(models[i].fields[k].name, models[i].fields[k].type,
                                  FALSE, FALSE)]
                     \o [k \in 1..Len(models[i].foreignKeys) |->
                           RelationField(<<"r", "s">>[k], models[i].foreignKeys[k].referencedModel,
                                         models[i].foreignKeys[k].fields,
                                         models[i].foreignKeys[k].referencedFields, NULL)],
                   IF models[i].primaryKey = None THEN None
                   ELSE Some(Val(models[i].primaryKey).fields),
                   [k \in 1..Len(models[i].uniqueConstraints) |->
                      AuditUniqueIndex(NULL, models[i].uniqueConstraints[k].fields)])]]

\* generateInvariants is called on a schema file.
InitGenerate ==
  /\ dmmf \in {DmmfOf(ms) : ms \in GenerateContracts}
  /\ pc = "gparse"
  /\ ClosureIdle
  /\ parsed = None
  /\ noTimestamp = TRUE
  /\ firstRun = None
  /\ failOn = None
  /\ exitCode = None
  /\ contract = None
  /\ invariantsFile = None
  /\ schemaFds = None
  /\ allFds = None
  /\ invariantFindings = None
  /\ suppress = None
  /\ allFindings = None
  /\ result = None

SpecGenerate == InitGenerate /\ [][GenerateNext]_vars

----------------------------------------------------------------------------
(* Properties of the audit.                                                *)

AfterCheckers == pc \in {"suppress", "returned"}

\* The findings of check3nf among all findings: no other checker emits
\* these two rules.
NormalFormFindings ==
  SelectSeq(allFindings, LAMBDA f : f.rule \in {"NF3_VIOLATION", "BCNF_VIOLATION"})

\* The FD list without its fk-sourced FDs.
WithoutFk(fdList) == SelectSeq(fdList, LAMBDA fd : fd.source # "fk")

InvariantFdsOf(fdList) == SelectSeq(fdList, LAMBDA fd : fd.source = "invariant")

HasModel(name) == \E i \in 1..Len(contract.models) : contract.models[i].name = name

TheModel(name) ==
  contract.models[CHOOSE i \in 1..Len(contract.models) : contract.models[i].name = name]

FieldSet(model) == {model.fields[i].name : i \in 1..Len(model.fields)}

\* Every field name of the model and of the FDs.
AllNames(model, fdList) ==
  FieldSet(model)
    \cup UNION {Range(fdList[i].determinant) \cup Range(fdList[i].dependent) :
                  i \in 1..Len(fdList)}

\* A superkey by definition: every set of names that holds the determinant
\* and is closed under the pk, unique and invariant FDs of the model holds
\* all fields of the model.
DeterminesAllFields(det, model, fdList) ==
  \A S \in SUBSET AllNames(model, fdList) :
    (Range(det) \subseteq S /\ IsClosedUnder(S, WithoutFk(fdList), model.name))
      => FieldSet(model) \subseteq S

\* The fields of the PK and of the unique constraints of a model.
KeyMaterial(model) ==
  (IF model.primaryKey = None THEN {} ELSE Range(Val(model.primaryKey).fields))
    \cup UNION {Range(model.uniqueConstraints[i].fields) :
                  i \in 1..Len(model.uniqueConstraints)}

\* The finding C5 asks of one entry of a dependent list.
ExpectedFinding(fd, model, dep) ==
  IF dep \in KeyMaterial(model)
  THEN [rule |-> "BCNF_VIOLATION", severity |-> "info", normalForm |-> "BCNF",
        model |-> fd.model, field |-> dep, message |-> <<fd.determinant, dep>>]
  ELSE [rule |-> "NF3_VIOLATION", severity |-> "error", normalForm |-> "3NF",
        model |-> fd.model, field |-> dep, message |-> <<fd.determinant, dep>>]

\* The findings C5 asks of one invariant FD: none unless its model is in the
\* contract and its determinant is not a superkey, else one per entry of the
\* dependent list that names a field of the model outside the determinant.
ExpectedOfFd(fd, fdList) ==
  IF ~HasModel(fd.model) THEN <<>>
  ELSE LET model == TheModel(fd.model)
       IN  IF DeterminesAllFields(fd.determinant, model, fdList) THEN <<>>
           ELSE LET deps == SelectSeq(fd.dependent,
                                      LAMBDA d : d \in FieldSet(model)
                                                   /\ d \notin Range(fd.determinant))
                IN  [j \in 1..Len(deps) |-> ExpectedFinding(fd, model, deps[j])]

\* C5: for every invariant FD of a model of the contract whose determinant is
\* not a superkey under the pk, unique and invariant FDs, check3nf emits one
\* finding for each entry of the dependent list that is a field of the model
\* and not in the determinant: BCNF_VIOLATION (info, BCNF) when the field is
\* in the PK or in a unique constraint, else NF3_VIOLATION (error, 3NF); the
\* findings come in the order of the FDs and of their dependents, and the
\* other invariant FDs add none.
C5_OneFindingPerDependent ==
  AfterCheckers =>
    LET inv == InvariantFdsOf(allFds)
    IN  NormalFormFindings = Flat([i \in 1..Len(inv) |-> ExpectedOfFd(inv[i], allFds)])

\* Employee{a PK, b, c, d} with the invariant b -> c, d: exactly the two
\* NF3_VIOLATION findings of c and d.
C5_Witness ==
  /\ AfterCheckers
  /\ LET e == TheModel("E")
     IN  /\ FieldSet(e) = {"a", "b", "c", "d"}
         /\ e.primaryKey # None
         /\ Val(e.primaryKey).fields = <<"a">>
         /\ e.uniqueConstraints = <<>>
  /\ \E i \in 1..Len(allFds) :
       /\ allFds[i].source = "invariant"
       /\ allFds[i].determinant = <<"b">>
       /\ allFds[i].dependent = <<"c", "d">>
  /\ Len(NormalFormFindings) = 2
  /\ \A k \in 1..2 : /\ NormalFormFindings[k].rule = "NF3_VIOLATION"
                     /\ NormalFormFindings[k].severity = "error"
                     /\ NormalFormFindings[k].normalForm = "3NF"
  /\ NormalFormFindings[1].field = "c"
  /\ NormalFormFindings[2].field = "d"

\* The determinant holds every field of the PK or of a unique constraint.
CoversAKey(det, model) ==
  \/ /\ model.primaryKey # None
     /\ Range(Val(model.primaryKey).fields) \subseteq Range(det)
  \/ \E i \in 1..Len(model.uniqueConstraints) :
       Range(model.uniqueConstraints[i].fields) \subseteq Range(det)

\* C6: with the schema-inferred FDs plus the invariant FDs, an invariant FD
\* whose determinant contains every field of the PK or of a unique constraint
\* of its model produces no NF3_VIOLATION and no BCNF_VIOLATION finding.
C6_KeyDeterminantNoFinding ==
  AfterCheckers =>
    \A i \in 1..Len(allFds) :
      (/\ allFds[i].source = "invariant"
       /\ HasModel(allFds[i].model)
       /\ CoversAKey(allFds[i].determinant, TheModel(allFds[i].model)))
        => ~\E k \in 1..Len(NormalFormFindings) :
              /\ NormalFormFindings[k].model = allFds[i].model
              /\ NormalFormFindings[k].message[1] = allFds[i].determinant

\* The only invariant FD has a determinant that covers a unique constraint
\* and not the PK, a dependent that is a field outside it, and no finding.
C6_Witness ==
  /\ AfterCheckers
  /\ NormalFormFindings = <<>>
  /\ LET inv == InvariantFdsOf(allFds)
     IN  /\ Len(inv) = 1
         /\ HasModel(inv[1].model)
         /\ LET model == TheModel(inv[1].model)
            IN  /\ \E j \in 1..Len(model.uniqueConstraints) :
                     Range(model.uniqueConstraints[j].fields) \subseteq Range(inv[1].determinant)
                /\ model.primaryKey # None
                /\ ~(Range(Val(model.primaryKey).fields) \subseteq Range(inv[1].determinant))
                /\ \E d \in Range(inv[1].dependent) :
                     d \in FieldSet(model) /\ d \notin Range(inv[1].determinant)

\* C7 as stated: attributeClosure gives the same result as on F with the
\* fk-sourced FDs removed, here for the determinants of the invariant FDs
\* and F the FDs of the audit.
C7_ClosureIgnoresFk ==
  AfterCheckers =>
    \A i \in 1..Len(allFds) :
      allFds[i].source = "invariant"
        => attributeClosure(allFds[i].determinant, allFds, allFds[i].model)
             = attributeClosure(allFds[i].determinant, WithoutFk(allFds), allFds[i].model)

\* C7, as the code has it: attributeClosure applies the FDs of every source;
\* it is check3nf that removes the fk-sourced FDs before its superkey tests,
\* so that its findings are those of the FD list without the fk-sourced FDs
\* and no determinant is taken for a superkey through an fk FD.
C7_Check3nfIgnoresFk ==
  AfterCheckers =>
    /\ NormalFormFindings = check3nf(contract, WithoutFk(allFds))
    /\ \A i \in 1..Len(allFds) :
         (/\ allFds[i].source = "invariant"
          /\ HasModel(allFds[i].model)
          /\ ~isSuperkey(allFds[i].determinant, FieldNames(TheModel(allFds[i].model)),
                         WithoutFk(allFds), allFds[i].model)
          /\ \E d \in Range(allFds[i].dependent) :
               d \in FieldSet(TheModel(allFds[i].model)) /\ d \notin Range(allFds[i].determinant))
           => \E k \in 1..Len(NormalFormFindings) :
                NormalFormFindings[k].message[1] = allFds[i].determinant

\* E{a PK, b -> D.a, c} with the invariant b -> c: with the fk FD b -> a the
\* closure of b is all of E, and c is reported all the same.
C7_Witness ==
  /\ AfterCheckers
  /\ \E i \in 1..Len(allFds) :
       /\ allFds[i].source = "fk"
       /\ allFds[i].model = "E"
       /\ allFds[i].determinant = <<"b">>
       /\ allFds[i].dependent = <<"a">>
  /\ \E i \in 1..Len(allFds) :
       /\ allFds[i].source = "invariant"
       /\ allFds[i].model = "E"
       /\ allFds[i].determinant = <<"b">>
       /\ isSuperkey(<<"b">>, FieldNames(TheModel("E")), allFds, "E")
       /\ ~isSuperkey(<<"b">>, FieldNames(TheModel("E")), WithoutFk(allFds), "E")
  /\ \E k \in 1..Len(NormalFormFindings) :
       /\ NormalFormFindings[k].rule = "NF3_VIOLATION"
       /\ NormalFormFindings[k].field = "c"
       /\ NormalFormFindings[k].message[1] = <<"b">>

AfterInfer == pc # "infer"

\* The inferred FDs of one model and one source, in the order of emission.
InferredOf(model, source) ==
  SelectSeq(schemaFds, LAMBDA fd : fd.model = model.name /\ fd.source = source)

\* The FD key -> the other fields of the model, in the order of the fields.
IsKeyFd(fd, model, keyFields) ==
  /\ fd.determinant = keyFields
  /\ Range(fd.dependent) = FieldSet(model) \ Range(keyFields)
  /\ Len(fd.dependent) = Cardinality(Range(fd.dependent))
  /\ \A i, j \in 1..Len(fd.dependent) :
       i < j => \E p, q \in 1..Len(model.fields) :
                  /\ p < q
                  /\ model.fields[p].name = fd.dependent[i]
                  /\ model.fields[q].name = fd.dependent[j]

LeavesAField(model, keyFields) == FieldSet(model) \ Range(keyFields) # {}

\* C9: inferFunctionalDependencies emits, for every model, one pk FD (PK ->
\* the fields outside it) exactly when the model has a PK and a field outside
\* it, one unique FD for each unique constraint that leaves a field outside
\* it, one fk FD (local fields -> referenced fields) for each foreign key,
\* and nothing else; a pk or unique FD has a non-empty dependent disjoint
\* from its determinant.
C9_InferredFds ==
  AfterInfer =>
    /\ \A i \in 1..Len(contract.models) :
         LET model == contract.models[i]
             pkFds == InferredOf(model, "pk")
             uqFds == InferredOf(model, "unique")
             fkFds == InferredOf(model, "fk")
             kept == SelectSeq(model.uniqueConstraints,
                               LAMBDA uq : LeavesAField(model, uq.fields))
         IN  /\ IF model.primaryKey # None
                     /\ LeavesAField(model, Val(model.primaryKey).fields)
                THEN /\ Len(pkFds) = 1
                     /\ IsKeyFd(pkFds[1], model, Val(model.primaryKey).fields)
                ELSE pkFds = <<>>
             /\ Len(uqFds) = Len(kept)
             /\ \A k \in 1..Len(kept) : IsKeyFd(uqFds[k], model, kept[k].fields)
             /\ Len(fkFds) = Len(model.foreignKeys)
             /\ \A k \in 1..Len(fkFds) :
                  /\ fkFds[k].determinant = model.foreignKeys[k].fields
                  /\ fkFds[k].dependent = model.foreignKeys[k].referencedFields
    /\ \A k \in 1..Len(schemaFds) :
         /\ schemaFds[k].source \in {"pk", "unique", "fk"}
         /\ HasModel(schemaFds[k].model)
         /\ schemaFds[k].source \in {"pk", "unique"}
              => /\ schemaFds[k].dependent # <<>>
                 /\ Range(schemaFds[k].dependent) \cap Range(schemaFds[k].determinant) = {}

\* A join table: E's PK is its whole field set, it has two foreign keys, and
\* its inferred FDs are the two fk FDs alone.
C9_Witness ==
  /\ AfterInfer
  /\ HasModel("E")
  /\ LET e == TheModel("E")
     IN  /\ e.primaryKey # None
         /\ Range(Val(e.primaryKey).fields) = FieldSet(e)
         /\ Len(e.foreignKeys) = 2
         /\ InferredOf(e, "pk") = <<>>
         /\ Len(InferredOf(e, "fk")) = 2
         /\ Len(SelectSeq(schemaFds, LAMBDA fd : fd.model = "E")) = 2

\* C10's rule: some entry has the finding's rule and either no field part
\* and the finding's model, or the finding's model and field.
SuppressedByEntry(finding, entries) ==
  \E i \in 1..Len(entries) :
    \/ entries[i] = Chars(finding.rule) \o <<":">> \o Chars(finding.model)
    \/ /\ finding.field # NULL
       /\ entries[i] = Chars(finding.rule) \o <<":">> \o Chars(finding.model)
                         \o <<".">> \o Chars(finding.field)

\* C10: a finding is removed from the audit result exactly when some suppress
\* entry has its rule and either no field part and its model, or its model
\* and its field; the findings that stay keep their order.
C10_SuppressExactly ==
  pc = "returned" =>
    result.findings = SelectSeq(allFindings, LAMBDA f : ~SuppressedByEntry(f, suppress))

\* NF3_VIOLATION:E is the only entry: an NF3_VIOLATION of E is removed, and a
\* BCNF_VIOLATION of E and a finding of another model stay.
C10_Witness ==
  /\ pc = "returned"
  /\ suppress = <<Chars("NF3_VIOLATION") \o <<":">> \o Chars("E")>>
  /\ \E k \in 1..Len(allFindings) :
       allFindings[k].rule = "NF3_VIOLATION" /\ allFindings[k].model = "E"
  /\ ~\E k \in 1..Len(result.findings) :
        result.findings[k].rule = "NF3_VIOLATION" /\ result.findings[k].model = "E"
  /\ \E k \in 1..Len(result.findings) :
       result.findings[k].rule = "BCNF_VIOLATION" /\ result.findings[k].model = "E"
  /\ \E k \in 1..Len(result.findings) : result.findings[k].model # "E"
  /\ Len(result.findings) < Len(allFindings)

\* The checker that emits a rule, by its place in the concatenation.
StageOf(rule) ==
  CASE rule \in {"NF1_LIST_IN_STRING_SUSPECTED", "NF1_REPEATING_GROUP_SUSPECTED",
                 "NF1_JSON_RELATION_SUSPECTED"} -> 1
    [] rule \in {"NF2_PARTIAL_DEPENDENCY_SUSPECTED",
                 "NF2_JOIN_TABLE_DUPLICATED_ATTR_SUSPECTED"} -> 2
    [] rule \in {"NF3_VIOLATION", "BCNF_VIOLATION"} -> 3
    [] rule \in {"SOFTDELETE_MISSING_IN_UNIQUE", "SOFTDELETE_AT_WITHOUT_BY",
                 "SOFTDELETE_BY_WITHOUT_AT"} -> 4
    [] rule = "FK_MISSING_INDEX" -> 5
    [] rule \in {"INVARIANT_UNKNOWN_MODEL", "INVARIANT_UNKNOWN_FIELD",
                 "INVARIANT_DETERMINANT_NOT_ENFORCED"} -> 6

\* The output of the checker of a stage on the contract and FDs of the audit.
StageOutput(stage) ==
  CASE stage = 1 -> check1nf(contract)
    [] stage = 2 -> check2nf(contract, allFds)
    [] stage = 3 -> check3nf(contract, allFds)
    [] stage = 4 -> checkSoftDelete(contract)
    [] stage = 5 -> checkFkIndexes(contract)
    [] stage = 6 -> invariantFindings

\* C11: the findings of the result are the outputs of check1nf, check2nf,
\* check3nf, checkSoftDelete, checkFkIndexes and the invariant validation in
\* this order, each without its suppressed findings and otherwise in its own
\* order; findingCount is the number of findings returned and modelCount the
\* number of models of the contract.
C11_ConcatenationAndCounts ==
  pc = "returned" =>
    /\ \A stage \in 1..6 :
         SelectSeq(result.findings, LAMBDA f : StageOf(f.rule) = stage)
           = SelectSeq(StageOutput(stage), LAMBDA f : ~SuppressedByEntry(f, suppress))
    /\ \A i, j \in 1..Len(result.findings) :
         i < j => StageOf(result.findings[i].rule) <= StageOf(result.findings[j].rule)
    /\ result.metadata.findingCount = Len(result.findings)
    /\ result.metadata.modelCount = Len(contract.models)
    /\ result.contract = contract

\* Findings of all six stages are returned, check2nf with two findings or
\* more, a finding was suppressed, and the count is the one after suppression.
C11_Witness ==
  /\ pc = "returned"
  /\ {StageOf(result.findings[k].rule) : k \in 1..Len(result.findings)} = 1..6
  /\ \A stage \in 1..6 : Len(StageOutput(stage)) >= 1
  /\ Len(StageOutput(2)) >= 2
  /\ Len(result.findings) < Len(allFindings)
  /\ result.metadata.findingCount = Len(result.findings)
  /\ result.metadata.modelCount = 2

----------------------------------------------------------------------------
(* The command line: a schema is parsed, audited, the exit code returned,  *)
(* and the same command is run once more.                                  *)

InitMain ==
  /\ \/ /\ dmmf \in ExtractPool
        /\ invariantsFile = None
        /\ noTimestamp = TRUE
        /\ failOn = NULL
     \/ /\ dmmf \in MainSchemas
        /\ invariantsFile \in MainFiles
        /\ noTimestamp \in BOOLEAN
        /\ failOn \in FailOnValues
  /\ parsed = None
  /\ pc = "parse"
  /\ ClosureIdle
  /\ contract = None
  /\ schemaFds = None
  /\ allFds = None
  /\ invariantFindings = None
  /\ suppress = None
  /\ allFindings = None
  /\ result = None
  /\ firstRun = None
  /\ exitCode = None

SpecMain == InitMain /\ [][MainNext]_vars

\* The command line on the schemas with relations.
InitExtract ==
  /\ dmmf \in {BasicSchema, SimpleSchema, SharedFkSchema}
  /\ parsed = None
  /\ invariantsFile \in MainFiles
  /\ noTimestamp \in BOOLEAN
  /\ failOn \in FailOnValues
  /\ pc = "parse"
  /\ ClosureIdle
  /\ contract = None
  /\ schemaFds = None
  /\ allFds = None
  /\ invariantFindings = None
  /\ suppress = None
  /\ allFindings = None
  /\ result = None
  /\ firstRun = None
  /\ exitCode = None

SpecExtract == InitExtract /\ [][MainNext]_vars

----------------------------------------------------------------------------
(* Foreign keys and the constraints that cover them.                       *)

\* The field lists of the primary key and of the unique constraints.
KeyFieldLists(model) ==
  (IF model.primaryKey = None THEN {} ELSE {Val(model.primaryKey).fields})
    \cup {model.uniqueConstraints[i].fields : i \in 1..Len(model.uniqueConstraints)}

\* The foreign key's fields are the first fields of a key, in its order.
IsCoveredFk(fk, model) ==
  \E c \in KeyFieldLists(model) :
    Len(fk.fields) <= Len(c) /\ SubSeq(c, 1, Len(fk.fields)) = fk.fields

FkFindings == SelectSeq(allFindings, LAMBDA f : f.rule = "FK_MISSING_INDEX")

FkFindingsOf(fk, model) ==
  SelectSeq(FkFindings, LAMBDA f : f.model = model.name /\ f.message[1] = fk.fields)

UncoveredFkCount(model) ==
  Cardinality({k \in 1..Len(model.foreignKeys) : ~IsCoveredFk(model.foreignKeys[k], model)})

RECURSIVE SumUncovered(_)
SumUncovered(n) == IF n = 0 THEN 0 ELSE UncoveredFkCount(contract.models[n]) + SumUncovered(n - 1)

\* C15: checkFkIndexes emits exactly one FK_MISSING_INDEX finding, of
\* severity info and normal form SCHEMA, for a foreign key if and only if
\* its field list is not a leftmost prefix (no longer than the constraint,
\* equal field at every position) of the field list of the primary key or
\* of a unique constraint of its model; a covered foreign key gets none, and
\* there is no other such finding.  The field of the finding is the foreign
\* key's field when it has one field, and null otherwise.
C15_FkMissingIndexIffUncovered ==
  AfterCheckers =>
    /\ \A i \in 1..Len(contract.models) :
         \A k \in 1..Len(contract.models[i].foreignKeys) :
           LET model == contract.models[i]
               fk == model.foreignKeys[k]
               found == FkFindingsOf(fk, model)
           IN  /\ Len(found) = (IF IsCoveredFk(fk, model) THEN 0 ELSE 1)
               /\ \A j \in 1..Len(found) :
                    /\ found[j].severity = "info"
                    /\ found[j].normalForm = "SCHEMA"
                    /\ found[j].field
                         = (IF Len(fk.fields) = 1 THEN fk.fields[1] ELSE NULL)
    /\ Len(FkFindings) = SumUncovered(Len(contract.models))

\* One model has a two-field foreign key covered by a longer key, and
\* another state a two-field foreign key whose fields are those of a key in
\* another order: the first gets no finding, the second one with no field.
C15_Witness ==
  /\ AfterCheckers
  /\ Len(contract.models) = 2
  /\ LET model == contract.models[2]
     IN  /\ Len(model.foreignKeys) = 2
         /\ IsCoveredFk(model.foreignKeys[1], model)
         /\ model.primaryKey = Some(PrimaryKeyConstraint(<<"a", "b", "c">>))
         /\ \E c \in KeyFieldLists(model) : c = <<"c", "b">>
         /\ ~IsCoveredFk(model.foreignKeys[2], model)
         /\ Len(FkFindings) = 1
         /\ FkFindings[1].field = NULL

----------------------------------------------------------------------------
(* Generation of an invariants file and its reading back.                  *)

\* The file has been generated and read back by the audit.
AfterReadBack == pc \in {"checkers", "suppress", "returned"}

\* The FDs that invariantsToFds makes of the generated file: allFds is the
\* schema FDs followed by them.
ReadBackFds == SubSeq(allFds, Len(schemaFds) + 1, Len(allFds))

KeyFds == SelectSeq(schemaFds, LAMBDA fd : fd.source \in {"pk", "unique"})

IsAscending(names) == \A i \in 1..(Len(names) - 1) : StrLess(names[i], names[i + 1])

\* The models named by the generated file are those with a PK or unique FD.
GeneratedModelsHaveKeyFd ==
  {Val(invariantsFile).invariants[i].model : i \in 1..Len(Val(invariantsFile).invariants)}
    = {KeyFds[i].model : i \in 1..Len(KeyFds)}

\* C13 as stated: reading the generated file back gives, for every PK or
\* unique FD inferred from the schema, an FD of the same model with the same
\* determinant and dependent lists, and nothing else; a model without such
\* an FD is absent from the file.
C13_RoundTripSameLists ==
  AfterReadBack =>
    /\ Len(ReadBackFds) = Len(KeyFds)
    /\ \A i \in 1..Len(KeyFds) :
         /\ ReadBackFds[i].model = KeyFds[i].model
         /\ ReadBackFds[i].determinant = KeyFds[i].determinant
         /\ ReadBackFds[i].dependent = KeyFds[i].dependent
    /\ GeneratedModelsHaveKeyFd

\* C13 (amended): reading the generated file back gives, for every PK or
\* unique FD inferred from the schema and in their order, an FD of source
\* "invariant" of the same model whose determinant and dependent hold the
\* same fields, each list in ascending order; nothing else is read back, and
\* a model without such an FD is absent from the file.
C13_RoundTripSameFields ==
  AfterReadBack =>
    /\ Len(ReadBackFds) = Len(KeyFds)
    /\ \A i \in 1..Len(KeyFds) :
         /\ ReadBackFds[i].model = KeyFds[i].model
         /\ ReadBackFds[i].source = "invariant"
         /\ Range(ReadBackFds[i].determinant) = Range(KeyFds[i].determinant)
         /\ Len(ReadBackFds[i].determinant) = Len(KeyFds[i].determinant)
         /\ IsAscending(ReadBackFds[i].determinant)
         /\ Range(ReadBackFds[i].dependent) = Range(KeyFds[i].dependent)
         /\ Len(ReadBackFds[i].dependent) = Len(KeyFds[i].dependent)
         /\ IsAscending(ReadBackFds[i].dependent)
    /\ GeneratedModelsHaveKeyFd

\* A composite key declared out of ascending order is read back, next to a
\* unique FD, a foreign-key FD that is left out, and a model in the file.
C13_Witness ==
  /\ AfterReadBack
  /\ \E i \in 1..Len(KeyFds) :
       /\ KeyFds[i].source = "pk"
       /\ ~IsAscending(KeyFds[i].determinant)
       /\ ReadBackFds[i].determinant # KeyFds[i].determinant
  /\ \E i \in 1..Len(KeyFds) : KeyFds[i].source = "unique"
  /\ \E i \in 1..Len(schemaFds) : schemaFds[i].source = "fk"
  /\ Len(Val(invariantsFile).invariants) = 2

----------------------------------------------------------------------------
(* The command line on the schemas of the tests.                           *)

AuditReturned == pc \in {"returned", "exited"}

\* C14: the audit of the basic schema (User with id as PK, email unique and
\* name; Post with id as PK, title and authorId referencing User.id) without
\* an invariants file returns exactly one finding, FK_MISSING_INDEX of
\* severity info on model Post and field authorId; no checker and no
\* validation adds another one.
C14_BasicSchemaOneFinding ==
  (AuditReturned /\ dmmf = BasicSchema /\ invariantsFile = None) =>
    /\ Len(result.findings) = 1
    /\ result.findings[1].rule = "FK_MISSING_INDEX"
    /\ result.findings[1].severity = "info"
    /\ result.findings[1].normalForm = "SCHEMA"
    /\ result.findings[1].model = "Post"
    /\ result.findings[1].field = "authorId"
    /\ result.metadata.findingCount = 1
    /\ result.metadata.modelCount = 2

\* The basic schema has been audited without invariants: its contract has
\* the two models with their keys and the foreign key of Post.
C14_Witness ==
  /\ AuditReturned
  /\ dmmf = BasicSchema
  /\ invariantsFile = None
  /\ Len(allFindings) = 1
  /\ contract.models[1].name = "Post"
  /\ contract.models[1].primaryKey = Some(PrimaryKeyConstraint(<<"id">>))
  /\ contract.models[1].foreignKeys[1].fields = <<"authorId">>
  /\ contract.models[2].uniqueConstraints[1].fields = <<"email">>

\* The findings are computed, whatever is suppressed afterwards.
FindingsComputed == pc \in {"suppress", "returned", "exited"}

HasSoftDeleteAt(model) ==
  \E i \in 1..Len(model.fields) :
    model.fields[i].name \in {"deleted_at", "deletedAt"} /\ model.fields[i].type = "DateTime"

HasSoftDeleteBy(model) ==
  \E i \in 1..Len(model.fields) : model.fields[i].name \in {"deleted_by", "deletedBy"}

FindingsOfRule(rule, name) ==
  SelectSeq(allFindings, LAMBDA f : f.rule = rule /\ f.model = name)

\* C16: soft-delete pairing: for every model there is exactly one
\* SOFTDELETE_AT_WITHOUT_BY finding, of severity info, when the model has a
\* DateTime field named deleted_at or deletedAt and no field named deleted_by
\* or deletedBy, exactly one SOFTDELETE_BY_WITHOUT_AT finding, of severity
\* info, in the reverse combination, and no pairing finding when both or
\* neither is present; the two rules never come together for a model.
C16_SoftDeletePairing ==
  FindingsComputed =>
    \A i \in 1..Len(contract.models) :
      LET model == contract.models[i]
          atWithoutBy == FindingsOfRule("SOFTDELETE_AT_WITHOUT_BY", model.name)
          byWithoutAt == FindingsOfRule("SOFTDELETE_BY_WITHOUT_AT", model.name)
      IN  /\ Len(atWithoutBy)
               = (IF HasSoftDeleteAt(model) /\ ~HasSoftDeleteBy(model) THEN 1 ELSE 0)
          /\ Len(byWithoutAt)
               = (IF HasSoftDeleteBy(model) /\ ~HasSoftDeleteAt(model) THEN 1 ELSE 0)
          /\ \A j \in 1..Len(atWithoutBy) : atWithoutBy[j].severity = "info"
          /\ \A j \in 1..Len(byWithoutAt) : byWithoutAt[j].severity = "info"
          /\ Len(atWithoutBy) + Len(byWithoutAt) <= 1

\* A model with deletedBy and a deleted_at field that is no DateTime field
\* has got the finding of the reverse combination.
C16_Witness ==
  /\ FindingsComputed
  /\ \E i \in 1..Len(contract.models) :
       /\ HasSoftDeleteBy(contract.models[i])
       /\ \E k \in 1..Len(contract.models[i].fields) :
            contract.models[i].fields[k].name = "deleted_at"
       /\ Len(FindingsOfRule("SOFTDELETE_BY_WITHOUT_AT", contract.models[i].name)) = 1

----------------------------------------------------------------------------
(* Validation of the invariants file against the contract.                 *)

\* validateInvariantsAgainstContract has returned.
AfterValidation == pc \in {"checkers", "suppress", "returned"}

DeclaredEntries == Val(invariantsFile).invariants

\* The FDs declared for the entry, none when it has no list.
DeclaredFds(e) ==
  IF e.functionalDependencies = None THEN <<>> ELSE Val(e.functionalDependencies)

\* The determinant names existing fields only and holds no whole key.
IsUnenforced(fd, model) ==
  /\ Range(fd.determinant) \subseteq FieldSet(model)
  /\ \A c \in KeyFieldLists(model) : ~(Range(c) \subseteq Range(fd.determinant))

NotEnforcedFindings(name, fd) ==
  SelectSeq(invariantFindings,
            LAMBDA f : /\ f.rule = "INVARIANT_DETERMINANT_NOT_ENFORCED"
                       /\ f.model = name
                       /\ f.message[1] = fd.determinant
                       /\ f.message[2] = fd.dependent)

\* The positions of the entry's FDs that call for the finding.
UnenforcedDeclarations(e) ==
  IF HasModel(e.model)
  THEN {j \in 1..Len(DeclaredFds(e)) : IsUnenforced(DeclaredFds(e)[j], TheModel(e.model))}
  ELSE {}

\* The positions of the entry's list that hold this FD.
Declarations(e, fd) == {k \in 1..Len(DeclaredFds(e)) : DeclaredFds(e)[k] = fd}

\* C17: for each declared FD of a model of the contract there is exactly one
\* INVARIANT_DETERMINANT_NOT_ENFORCED finding, a warning, if and only if
\* every determinant field is a field of the model and neither the PK nor a
\* unique constraint has all its fields in the determinant; with an unknown
\* field in the determinant there is none.  (An FD declared n times counts
\* n times.)  There is no other such finding.
C17_NotEnforcedIff ==
  AfterValidation =>
    /\ \A i \in 1..Len(DeclaredEntries) :
         LET e == DeclaredEntries[i]
         IN  HasModel(e.model) =>
               \A j \in 1..Len(DeclaredFds(e)) :
                 LET fd == DeclaredFds(e)[j]
                     found == NotEnforcedFindings(e.model, fd)
                 IN  /\ Len(found) = (IF IsUnenforced(fd, TheModel(e.model))
                                      THEN Cardinality(Declarations(e, fd)) ELSE 0)
                     /\ ~(Range(fd.determinant) \subseteq FieldSet(TheModel(e.model)))
                          => Len(found) = 0
                     /\ \A k \in 1..Len(found) :
                          found[k].severity = "warning" /\ found[k].field = NULL
    /\ Len(SelectSeq(invariantFindings,
                     LAMBDA f : f.rule = "INVARIANT_DETERMINANT_NOT_ENFORCED"))
         = Cardinality(UNION {{<<i, j>> : j \in UnenforcedDeclarations(DeclaredEntries[i])} :
                                i \in 1..Len(DeclaredEntries)})

\* One declared FD has an unknown field in its determinant and is skipped,
\* while its determinant holds the whole PK's fields or not; another FD of
\* the same list names known fields only and is not enforced.
C17_Witness ==
  /\ AfterValidation
  /\ \E i \in 1..Len(DeclaredEntries) :
       LET e == DeclaredEntries[i]
       IN  /\ HasModel(e.model)
           /\ Len(DeclaredFds(e)) = 2
           /\ ~(Range(DeclaredFds(e)[1].determinant) \subseteq FieldSet(TheModel(e.model)))
           /\ \A c \in KeyFieldLists(TheModel(e.model)) :
                ~(Range(c) \subseteq Range(DeclaredFds(e)[1].determinant))
           /\ Len(NotEnforcedFindings(e.model, DeclaredFds(e)[1])) = 0
           /\ Len(NotEnforcedFindings(e.model, DeclaredFds(e)[2])) = 1

\* The fields named by the FD, in its determinant or its dependent.
ReferencedFields(fd) == Range(fd.determinant) \cup Range(fd.dependent)

UnknownFieldFindings(name, field) ==
  SelectSeq(invariantFindings,
            LAMBDA f : f.rule = "INVARIANT_UNKNOWN_FIELD" /\ f.model = name /\ f.field = field)

FindingsOnModel(name) == SelectSeq(invariantFindings, LAMBDA f : f.model = name)

\* C18: referential problems of the invariants become warnings and the
\* audit goes on: for each declared model that the contract does not have
\* there is exactly one INVARIANT_UNKNOWN_MODEL warning and no other finding
\* of the validation; for each declared FD of a model of the contract there
\* is exactly one INVARIANT_UNKNOWN_FIELD warning per distinct field of its
\* determinant and dependent that the model does not have (a field named in
\* both, or twice, is reported once per FD); a known field gets none.  Every
\* finding of the validation is a warning and is among the findings of the
\* audit.
C18_ReferentialWarnings ==
  AfterValidation =>
    /\ \A i \in 1..Len(DeclaredEntries) :
         LET e == DeclaredEntries[i]
         IN  IF ~HasModel(e.model)
             THEN /\ Len(FindingsOnModel(e.model)) = 1
                  /\ FindingsOnModel(e.model)[1].rule = "INVARIANT_UNKNOWN_MODEL"
                  /\ FindingsOnModel(e.model)[1].field = NULL
             ELSE /\ \A field \in UNION {ReferencedFields(DeclaredFds(e)[j]) :
                                            j \in 1..Len(DeclaredFds(e))} :
                       Len(UnknownFieldFindings(e.model, field))
                         = (IF field \in FieldSet(TheModel(e.model)) THEN 0
                            ELSE Cardinality({j \in 1..Len(DeclaredFds(e)) :
                                                field \in ReferencedFields(DeclaredFds(e)[j])}))
                  /\ \A k \in 1..Len(FindingsOnModel(e.model)) :
                       /\ FindingsOnModel(e.model)[k].rule # "INVARIANT_UNKNOWN_MODEL"
                       /\ FindingsOnModel(e.model)[k].rule = "INVARIANT_UNKNOWN_FIELD"
                            => FindingsOnModel(e.model)[k].field
                                 \in UNION {ReferencedFields(DeclaredFds(e)[j]) :
                                              j \in 1..Len(DeclaredFds(e))}
    /\ \A k \in 1..Len(invariantFindings) :
         /\ invariantFindings[k].severity = "warning"
         /\ \E i \in 1..Len(DeclaredEntries) :
              DeclaredEntries[i].model = invariantFindings[k].model
    /\ AfterCheckers =>
         Len(SelectSeq(allFindings, LAMBDA f : StageOf(f.rule) = 6)) = Len(invariantFindings)

\* The file names a model that the contract does not have and, for E, an FD
\* with the unknown field d in its determinant and its dependent: one
\* finding for the model, one for d, and the audit has returned.
C18_Witness ==
  /\ pc = "returned"
  /\ Len(DeclaredEntries) = 2
  /\ ~HasModel(DeclaredEntries[1].model)
  /\ Len(FindingsOnModel(DeclaredEntries[1].model)) = 1
  /\ LET e == DeclaredEntries[2]
     IN  /\ HasModel(e.model)
         /\ Len(DeclaredFds(e)) = 1
         /\ "d" \in Range(DeclaredFds(e)[1].determinant) \cap Range(DeclaredFds(e)[1].dependent)
         /\ "d" \notin FieldSet(TheModel(e.model))
         /\ Len(UnknownFieldFindings(e.model, "d")) = 1
         /\ Len(FindingsOnModel(e.model)) = 1

----------------------------------------------------------------------------
(* The order of the extracted contract.                                    *)

ContractExtracted == pc \notin {"parse", "extract"}

NamesAscend(names) == \A i \in 1..(Len(names) - 1) : ~StrLess(names[i + 1], names[i])

\* The parsed model that the model of the contract was made from.
ParsedModel(name) ==
  parsed.models[CHOOSE i \in 1..Len(parsed.models) : parsed.models[i].name = name]

ScalarNames(model) ==
  LET scalars == SelectSeq(model.fields, LAMBDA f : f.kind # "object")
  IN  [i \in 1..Len(scalars) |-> scalars[i].name]

\* C19: in the contract that extractContract returns the models are in
\* non-decreasing order of name; the fields of each model are exactly the
\* input fields that are no relation (kind object), in non-decreasing order
\* of name; the unique constraints are in non-decreasing order of their
\* comma-joined field lists, and the foreign keys in non-decreasing order of
\* their comma-joined local field lists.
C19_ContractSorted ==
  ContractExtracted =>
    /\ NamesAscend([i \in 1..Len(contract.models) |-> contract.models[i].name])
    /\ Len(contract.models) = Len(parsed.models)
    /\ \A i \in 1..Len(contract.models) :
         LET model == contract.models[i]
             names == [k \in 1..Len(model.fields) |-> model.fields[k].name]
         IN  /\ NamesAscend(names)
             /\ Len(names) = Len(ScalarNames(ParsedModel(model.name)))
             /\ Range(names) = Range(ScalarNames(ParsedModel(model.name)))
             /\ SortedByJoin([k \in 1..Len(model.uniqueConstraints) |->
                                model.uniqueConstraints[k].fields])
             /\ SortedByJoin([k \in 1..Len(model.foreignKeys) |->
                                model.foreignKeys[k].fields])

\* A schema whose models, fields, unique constraints and relations are all
\* declared against their order has been extracted, relation fields dropped.
C19_Witness ==
  /\ ContractExtracted
  /\ ~NamesAscend([i \in 1..Len(parsed.models) |-> parsed.models[i].name])
  /\ \E i \in 1..Len(parsed.models) :
       LET model == parsed.models[i]
           relations == SelectSeq(model.fields, LAMBDA f : f.kind = "object")
           uniques == SelectSeq(model.fields, LAMBDA f : f.isUnique)
       IN  /\ ~NamesAscend(ScalarNames(model))
           /\ Len(relations) = 2
           /\ ~SortedByJoin([k \in 1..2 |-> Val(relations[k].relationFromFields)])
           /\ Len(uniques) = 2
           /\ StrLess(uniques[2].name, uniques[1].name)
           /\ Len(model.uniqueIndexes) = 1
           /\ Len(TheModel(model.name).uniqueConstraints) = 3
           /\ Len(TheModel(model.name).foreignKeys) = 2
           /\ Len(TheModel(model.name).fields) = 3

----------------------------------------------------------------------------
(* The exit code of the command line.                                      *)

\* The severities at or above the threshold, in the order
\* info < warning < error.
AtOrAbove(threshold) ==
  CASE threshold = "info" -> {"info", "warning", "error"}
    [] threshold = "warning" -> {"warning", "error"}
    [] threshold = "error" -> {"error"}

\* C20: after an audit that completed, main returns exit code 1 if and only
\* if --fail-on was given and a finding of the returned result, the one
\* after suppression, has a severity at or above it in the order
\* info < warning < error; it returns 0 otherwise, and always 0 when
\* --fail-on is absent.
C20_ExitCode ==
  pc = "exited" =>
    /\ exitCode \in {0, 1}
    /\ exitCode = 1 <=>
         /\ failOn # NULL
         /\ \E i \in 1..Len(result.findings) :
              result.findings[i].severity \in AtOrAbove(failOn)
    /\ failOn = NULL => exitCode = 0

\* With --fail-on error, the one error finding of the audit is suppressed
\* and warnings are returned: the exit code is 0.
C20_Witness ==
  /\ pc = "exited"
  /\ failOn = "error"
  /\ \E i \in 1..Len(allFindings) : allFindings[i].severity = "error"
  /\ \A i \in 1..Len(result.findings) : result.findings[i].severity # "error"
  /\ \E i \in 1..Len(result.findings) : result.findings[i].severity = "warning"
  /\ exitCode = 0

----------------------------------------------------------------------------
(* Partial dependencies (2NF).                                             *)

PkFieldSet(model) ==
  IF model.primaryKey = None THEN {} ELSE Range(Val(model.primaryKey).fields)

HasCompositePk(model) ==
  model.primaryKey # None /\ Len(Val(model.primaryKey).fields) > 1

\* The positions in allFds of the foreign-key FDs of the model.
FkFdPositions(model) ==
  {j \in 1..Len(allFds) : allFds[j].model = model.name /\ allFds[j].source = "fk"}

\* The determinant holds fields of the primary key only, and not all of them.
IsPartOfPk(fd, model) ==
  /\ Range(fd.determinant) \subseteq PkFieldSet(model)
  /\ Range(fd.determinant) # PkFieldSet(model)

PartialFindings(model) ==
  SelectSeq(allFindings,
            LAMBDA f : f.rule = "NF2_PARTIAL_DEPENDENCY_SUSPECTED" /\ f.model = model.name)

\* C21: check2nf has findings only for models whose primary key has more
\* than one field.  For such a model and every foreign-key FD of it whose
\* determinant is a proper subset of the primary key there is exactly one
\* NF2_PARTIAL_DEPENDENCY_SUSPECTED warning for each field of the model
\* outside the primary key, naming that field; a foreign-key FD whose
\* determinant is the whole primary key or holds a field outside it gives
\* none, and there is no other such finding.
C21_PartialDependency ==
  AfterCheckers =>
    \A i \in 1..Len(contract.models) :
      LET model == contract.models[i]
          found == PartialFindings(model)
      IN  /\ ~HasCompositePk(model) =>
               \A k \in 1..Len(allFindings) :
                 allFindings[k].model = model.name => allFindings[k].normalForm # "2NF"
          /\ HasCompositePk(model) =>
               /\ \A j \in FkFdPositions(model) : \A field \in FieldSet(model) :
                    Len(SelectSeq(found, LAMBDA f : /\ f.field = field
                                                    /\ f.message[3] = allFds[j].determinant))
                      = (IF IsPartOfPk(allFds[j], model) /\ field \notin PkFieldSet(model)
                         THEN Cardinality({k \in FkFdPositions(model) :
                                             allFds[k].determinant = allFds[j].determinant})
                         ELSE 0)
               /\ Len(found)
                    = Cardinality({jf \in FkFdPositions(model) \X FieldSet(model) :
                                     /\ IsPartOfPk(allFds[jf[1]], model)
                                     /\ jf[2] \notin PkFieldSet(model)})
               /\ \A k \in 1..Len(found) : found[k].severity = "warning"

\* A model with the primary key (a, c) has a foreign key on a, a part of
\* the key, and one on b, outside the key: b is flagged once, for the first.
C21_Witness ==
  /\ AfterCheckers
  /\ \E i \in 1..Len(contract.models) :
       LET model == contract.models[i]
       IN  /\ HasCompositePk(model)
           /\ \E j, k \in FkFdPositions(model) :
                /\ IsPartOfPk(allFds[j], model)
                /\ ~(Range(allFds[k].determinant) \subseteq PkFieldSet(model))
           /\ Len(PartialFindings(model)) = 1
           /\ PartialFindings(model)[1].field \notin PkFieldSet(model)

----------------------------------------------------------------------------
(* Repeating groups (1NF).                                                 *)

\* The characters of the name without the digits it ends with.
RECURSIVE StripDigits(_)
StripDigits(cs) ==
  IF Len(cs) > 1 /\ IsDigit(cs[Len(cs)]) THEN StripDigits(SubSeq(cs, 1, Len(cs) - 1)) ELSE cs

IsNumbered(name) == IsDigit(Chars(name)[Len(Chars(name))]) /\ Len(Chars(name)) > 1

\* The fields of the model named <base><digits>, in the order of its fields.
GroupMembers(model, base) ==
  SelectSeq(model.fields, LAMBDA f : IsNumbered(f.name) /\ StripDigits(Chars(f.name)) = base)

GroupBases(model) ==
  {StripDigits(Chars(model.fields[i].name)) :
     i \in {k \in 1..Len(model.fields) : IsNumbered(model.fields[k].name)}}

GroupFindings(model, base) ==
  SelectSeq(allFindings,
            LAMBDA f : /\ f.rule = "NF1_REPEATING_GROUP_SUSPECTED"
                       /\ f.model = model.name
                       /\ f.message[2] = base)

\* C22 as stated: a base for which at least two fields named <base><digits>
\* have the same type gets exactly one NF1_REPEATING_GROUP_SUSPECTED
\* warning; a base with fewer than two such fields of one type gets none.
C22_TwoOfOneType ==
  FindingsComputed =>
    \A i \in 1..Len(contract.models) : \A base \in GroupBases(contract.models[i]) :
      LET model == contract.models[i]
          members == GroupMembers(model, base)
          twoOfOneType == \E j, k \in 1..Len(members) :
                            j # k /\ members[j].type = members[k].type
      IN  Len(GroupFindings(model, base)) = (IF twoOfOneType THEN 1 ELSE 0)

\* C22 (amended): a base gets exactly one NF1_REPEATING_GROUP_SUSPECTED
\* warning, with field null and listing the fields named <base><digits> in
\* the order of the model's fields, if and only if these fields number at
\* least two and all have the same type; otherwise it gets none, also when
\* two of three members have one type.  No such finding names another base.
C22_WholeGroupOfOneType ==
  FindingsComputed =>
    \A i \in 1..Len(contract.models) :
      LET model == contract.models[i]
      IN  /\ \A base \in GroupBases(model) :
               LET members == GroupMembers(model, base)
                   found == GroupFindings(model, base)
                   oneType == \A j, k \in 1..Len(members) : members[j].type = members[k].type
               IN  /\ Len(found) = (IF Len(members) >= 2 /\ oneType THEN 1 ELSE 0)
                   /\ \A k \in 1..Len(found) :
                        /\ found[k].severity = "warning"
                        /\ found[k].field = NULL
                        /\ found[k].message[1] = [j \in 1..Len(members) |-> members[j].name]
          /\ \A k \in 1..Len(allFindings) :
               (allFindings[k].rule = "NF1_REPEATING_GROUP_SUSPECTED"
                  /\ allFindings[k].model = model.name)
                 => allFindings[k].message[2] \in GroupBases(model)

\* A model has three fields of one base and of one type, and a second base
\* with one field: one finding, which lists the three.
C22_Witness ==
  /\ FindingsComputed
  /\ \E i \in 1..Len(contract.models) : \E base \in GroupBases(contract.models[i]) :
       LET model == contract.models[i]
           members == GroupMembers(model, base)
       IN  /\ Len(members) = 3
           /\ \A j \in 1..3 : members[j].type = members[1].type
           /\ Len(GroupFindings(model, base)) = 1
           /\ Len(GroupFindings(model, base)[1].message[1]) = 3
           /\ Cardinality(GroupBases(model)) = 2

----------------------------------------------------------------------------
(* The order of the findings of a checker.                                 *)

ModelPosition(name) ==
  CHOOSE i \in 1..Len(contract.models) : contract.models[i].name = name

FieldPosition(name, field) ==
  CHOOSE k \in 1..Len(TheModel(name).fields) : TheModel(name).fields[k].name = field

\* The findings are in the order of the models of the contract and, for one
\* model, those that name a field in the order of the model's fields.
InModelThenFieldOrder(findings) ==
  \A i, j \in 1..Len(findings) :
    i < j =>
      /\ ModelPosition(findings[i].model) <= ModelPosition(findings[j].model)
      /\ (findings[i].model = findings[j].model
            /\ findings[i].field # NULL /\ findings[j].field # NULL)
           => FieldPosition(findings[i].model, findings[i].field)
                <= FieldPosition(findings[j].model, findings[j].field)

\* C23: in the output of each of check1nf, check2nf, check3nf,
\* checkSoftDelete and checkFkIndexes the findings of an earlier model of the
\* contract precede those of a later one and, for one model, follow the
\* order of the model's fields, whatever the order of the declared
\* invariants.
C23_ModelThenFieldOrder ==
  AfterCheckers => \A stage \in 1..5 : InModelThenFieldOrder(StageOutput(stage))

----------------------------------------------------------------------------
(* The generated invariants file.                                          *)

GeneratedFile == Val(invariantsFile).invariants

KeyFdsOf(name) == SelectSeq(KeyFds, LAMBDA fd : fd.model = name)

\* C24: the generated file has one entry per PK or unique FD, under the
\* FD's model and in the order of these FDs, and none for a foreign-key or
\* invariant FD: the FD list of the audit, which holds such FDs too, gives
\* the same file.  The models of the file are in ascending order, without
\* repeats; the determinant and the dependent of every entry are the FD's
\* fields in ascending order; the rule of every entry names the model and
\* the fields of the FD's determinant (joined by " + " in the text); a model
\* without a PK or unique FD is not in the file.
C24_GeneratedFile ==
  AfterReadBack =>
    /\ \A i \in 1..(Len(GeneratedFile) - 1) :
         StrLess(GeneratedFile[i].model, GeneratedFile[i + 1].model)
    /\ GeneratedModelsHaveKeyFd
    /\ \A i \in 1..Len(GeneratedFile) :
         LET name == GeneratedFile[i].model
             entries == Val(GeneratedFile[i].functionalDependencies)
             from == KeyFdsOf(name)
         IN  /\ Len(entries) = Len(from)
             /\ \A k \in 1..Len(entries) :
                  /\ Range(entries[k].determinant) = Range(from[k].determinant)
                  /\ Len(entries[k].determinant) = Len(from[k].determinant)
                  /\ IsAscending(entries[k].determinant)
                  /\ Range(entries[k].dependent) = Range(from[k].dependent)
                  /\ Len(entries[k].dependent) = Len(from[k].dependent)
                  /\ IsAscending(entries[k].dependent)
                  /\ entries[k].rule = <<name, from[k].determinant>>
    /\ generateInvariantsFile(contract, allFds) = GeneratedFile

\* The file has entries for two models, two of them for one model, one from
\* a composite key declared out of order, while the FD list holds a
\* foreign-key FD and the invariant FDs read back.
C24_Witness ==
  /\ AfterReadBack
  /\ Len(GeneratedFile) = 2
  /\ \E i \in 1..2 :
       /\ Len(Val(GeneratedFile[i].functionalDependencies)) = 2
       /\ \E k \in 1..2 : ~IsAscending(KeyFdsOf(GeneratedFile[i].model)[k].determinant)
  /\ \E j \in 1..Len(allFds) : allFds[j].source = "fk"
  /\ \E j \in 1..Len(allFds) : allFds[j].source = "invariant"

----------------------------------------------------------------------------
(* Soft delete and the unique constraints.                                 *)

IsSoftDeleteAt(field) ==
  field.name \in {"deleted_at", "deletedAt"} /\ field.type = "DateTime"

\* The name of the first DateTime field deleted_at or deletedAt of the model.
SoftDeleteName(model) ==
  model.fields[CHOOSE k \in 1..Len(model.fields) :
                 /\ IsSoftDeleteAt(model.fields[k])
                 /\ \A j \in 1..(k - 1) : ~IsSoftDeleteAt(model.fields[j])].name

MissingInUnique(model) ==
  SelectSeq(allFindings,
            LAMBDA f : f.rule = "SOFTDELETE_MISSING_IN_UNIQUE" /\ f.model = model.name)

\* C25: for a model with a DateTime field deleted_at or deletedAt, the first
\* of them in the model's field list being the soft-delete field, there is
\* exactly one SOFTDELETE_MISSING_IN_UNIQUE warning, on that field, for each
\* unique constraint whose fields do not hold it, and none for a unique
\* constraint that holds it; there is none for the primary key, and none
\* for a model without such a field.
C25_MissingInUnique ==
  FindingsComputed =>
    \A i \in 1..Len(contract.models) :
      LET model == contract.models[i]
          found == MissingInUnique(model)
          uqs == model.uniqueConstraints
      IN  IF ~HasSoftDeleteAt(model) THEN Len(found) = 0
          ELSE /\ \A k \in 1..Len(uqs) :
                    Len(SelectSeq(found, LAMBDA f : f.message[1] = uqs[k].fields))
                      = (IF SoftDeleteName(model) \in Range(uqs[k].fields) THEN 0
                         ELSE Cardinality({j \in 1..Len(uqs) : uqs[j].fields = uqs[k].fields}))
               /\ Len(found)
                    = Cardinality({k \in 1..Len(uqs) :
                                     SoftDeleteName(model) \notin Range(uqs[k].fields)})
               /\ \A k \in 1..Len(found) :
                    /\ found[k].severity = "warning"
                    /\ found[k].field = SoftDeleteName(model)

\* A model has the DateTime fields deletedAt and deleted_at, the first being
\* the soft-delete field, a primary key without it and three unique
\* constraints, one of them on deleted_at: three findings on deletedAt.
C25_Witness ==
  /\ FindingsComputed
  /\ \E i \in 1..Len(contract.models) :
       LET model == contract.models[i]
       IN  /\ Cardinality({k \in 1..Len(model.fields) : IsSoftDeleteAt(model.fields[k])}) = 2
           /\ SoftDeleteName(model) = "deletedAt"
           /\ Len(model.uniqueConstraints) = 3
           /\ \E k \in 1..3 : "deleted_at" \in Range(model.uniqueConstraints[k].fields)
           /\ model.primaryKey # None
           /\ Len(MissingInUnique(model)) = 3

----------------------------------------------------------------------------
(* Extraction and the order of its input.                                  *)

\* The lists that hold the elements of s in some order.
RECURSIVE PermutationsOf(_)
PermutationsOf(s) ==
  IF Len(s) = 0 THEN {<<>>}
  ELSE UNION {{<<s[i]>> \o rest :
                 rest \in PermutationsOf(SubSeq(s, 1, i - 1) \o SubSeq(s, i + 1, Len(s)))} :
              i \in 1..Len(s)}

JustExtracted == pc = "infer"

ModelsPermuted ==
  {[models |-> ms] : ms \in PermutationsOf(parsed.models)}

FieldsPermuted ==
  UNION {{[models |-> [parsed.models EXCEPT ![i].fields = fs]] :
            fs \in PermutationsOf(parsed.models[i].fields)} :
         i \in 1..Len(parsed.models)}

UniqueIndexesPermuted ==
  UNION {{[models |-> [parsed.models EXCEPT ![i].uniqueIndexes = ixs]] :
            ixs \in PermutationsOf(parsed.models[i].uniqueIndexes)} :
         i \in 1..Len(parsed.models)}

\* C26: the contract extracted from the parsed models is the contract
\* extracted from them with the model list, or the field list of a model,
\* or the unique-index list of a model, permuted.
C26_OrderIrrelevant ==
  JustExtracted =>
    \A q \in ModelsPermuted \cup FieldsPermuted \cup UniqueIndexesPermuted :
      extractContract(q) = contract

----------------------------------------------------------------------------
(* Candidate keys and the inferred FDs.                                    *)

\* C27: the candidate keys of a model of the contract are its PK, tagged pk,
\* and then its unique constraints in their order, tagged unique, and each
\* of them is a superkey of the model under the inferred FDs, also the PK of
\* an all-key model, which has no pk FD; a model name that the contract
\* does not have has no candidate key.
C27_CandidateKeysAreSuperkeys ==
  AfterInfer =>
    /\ \A i \in 1..Len(contract.models) :
         LET model == contract.models[i]
             keys == extractCandidateKeys(contract, model.name)
             pks == IF model.primaryKey # None THEN 1 ELSE 0
         IN  /\ Len(keys) = pks + Len(model.uniqueConstraints)
             /\ pks = 1 => /\ keys[1].source = "pk"
                           /\ keys[1].fields = Val(model.primaryKey).fields
             /\ \A k \in 1..Len(model.uniqueConstraints) :
                  /\ keys[pks + k].source = "unique"
                  /\ keys[pks + k].fields = model.uniqueConstraints[k].fields
             /\ \A k \in 1..Len(keys) :
                  /\ keys[k].model = model.name
                  /\ isSuperkey(keys[k].fields, FieldNames(model), schemaFds, model.name)
    /\ \A name \in {"D", "E", "X"} :
         ~HasModel(name) => extractCandidateKeys(contract, name) = <<>>

\* E is an all-key model with a unique constraint on one field, and D is
\* not in the contract: E has no pk FD, and its PK and its unique
\* constraint are superkeys.
C27_Witness ==
  /\ AfterInfer
  /\ ~HasModel("D")
  /\ HasModel("E")
  /\ LET e == TheModel("E")
     IN  /\ e.primaryKey # None
         /\ Range(Val(e.primaryKey).fields) = FieldSet(e)
         /\ Len(FieldNames(e)) = 3
         /\ InferredOf(e, "pk") = <<>>
         /\ \E k \in 1..Len(e.uniqueConstraints) : Len(e.uniqueConstraints[k].fields) = 1
         /\ Len(extractCandidateKeys(contract, "E")) = 1 + Len(e.uniqueConstraints)

----------------------------------------------------------------------------
(* BCNF findings and the keys of one field.                                *)

\* The field alone is the PK or a unique constraint of the model.
IsKeyOfOneField(model, field) ==
  \/ model.primaryKey # None /\ Val(model.primaryKey).fields = <<field>>
  \/ \E i \in 1..Len(model.uniqueConstraints) : model.uniqueConstraints[i].fields = <<field>>

InCompositeKey(model, field) ==
  \/ /\ model.primaryKey # None
     /\ Len(Val(model.primaryKey).fields) > 1
     /\ field \in Range(Val(model.primaryKey).fields)
  \/ \E i \in 1..Len(model.uniqueConstraints) :
       /\ Len(model.uniqueConstraints[i].fields) > 1
       /\ field \in Range(model.uniqueConstraints[i].fields)

\* C28: in the audit on the schema-inferred FDs plus the invariant FDs, no
\* BCNF_VIOLATION finding names a field that alone is the PK or a unique
\* constraint of its model, every BCNF_VIOLATION finding names a field of a
\* composite key, and an invariant FD whose dependent holds a field that
\* alone is a key yields no NF3_VIOLATION and no BCNF_VIOLATION finding.
C28_BcnfOnlyOnCompositeKeys ==
  AfterCheckers =>
    /\ \A k \in 1..Len(NormalFormFindings) :
         NormalFormFindings[k].rule = "BCNF_VIOLATION"
           => LET model == TheModel(NormalFormFindings[k].model)
              IN  /\ ~IsKeyOfOneField(model, NormalFormFindings[k].field)
                  /\ InCompositeKey(model, NormalFormFindings[k].field)
    /\ \A i \in 1..Len(allFds) :
         (/\ allFds[i].source = "invariant"
          /\ HasModel(allFds[i].model)
          /\ \E d \in Range(allFds[i].dependent) :
               IsKeyOfOneField(TheModel(allFds[i].model), d))
           => ~\E k \in 1..Len(NormalFormFindings) :
                 /\ NormalFormFindings[k].model = allFds[i].model
                 /\ NormalFormFindings[k].message[1] = allFds[i].determinant

\* The only invariant FD has the one-field PK and a non-key field as its
\* dependent and a determinant of non-key fields: no finding.
C28_Witness ==
  /\ AfterCheckers
  /\ NormalFormFindings = <<>>
  /\ LET inv == InvariantFdsOf(allFds)
     IN  /\ Len(inv) = 1
         /\ HasModel(inv[1].model)
         /\ LET model == TheModel(inv[1].model)
            IN  /\ ~CoversAKey(inv[1].determinant, model)
                /\ Len(FieldNames(model)) = 4
                /\ Range(inv[1].determinant) \subseteq FieldSet(model)
                /\ \E d \in Range(inv[1].dependent) :
                     IsKeyOfOneField(model, d) /\ d \notin Range(inv[1].determinant)
                /\ \E d \in Range(inv[1].dependent) :
                     /\ d \in FieldSet(model)
                     /\ ~IsKeyOfOneField(model, d)
                     /\ ~InCompositeKey(model, d)
                     /\ d \notin Range(inv[1].determinant)

----------------------------------------------------------------------------
(* The audit with the generated invariants and the audit without.          *)

\* The findings of the audit of the contract without an invariants file.
FindingsWithoutInvariants ==
  check1nf(contract) \o check2nf(contract, schemaFds) \o check3nf(contract, schemaFds)
    \o checkSoftDelete(contract) \o checkFkIndexes(contract)

\* C29: the audit with the invariants generated from the schema, without a
\* suppress list, returns the findings of the audit of the schema without
\* invariants: the generated FDs give no invariant finding and no
\* NF3_VIOLATION or BCNF_VIOLATION finding, and every other checker returns
\* what it returns on the schema-inferred FDs.
C29_GeneratedInvariantsAddNothing ==
  AuditReturned =>
    /\ invariantsFile = Some(InvariantsFileOf(generateInvariantsFile(contract, schemaFds), <<>>))
    /\ result.findings = FindingsWithoutInvariants
    /\ invariantFindings = <<>>
    /\ check3nf(contract, allFds) = <<>>
    /\ check2nf(contract, allFds) = check2nf(contract, schemaFds)
    /\ \A k \in 1..Len(result.findings) :
         result.findings[k].rule
           \notin {"NF3_VIOLATION", "BCNF_VIOLATION", "INVARIANT_UNKNOWN_MODEL",
                    "INVARIANT_UNKNOWN_FIELD", "INVARIANT_DETERMINANT_NOT_ENFORCED"}

\* The generated file has entries for two models, the audit ran on the
\* schema-inferred FDs plus three or more generated FDs, one of them with a
\* determinant of two fields, and returned findings.
C29_Witness ==
  /\ AuditReturned
  /\ Len(GeneratedFile) = 2
  /\ Len(InvariantFdsOf(allFds)) >= 3
  /\ \E i \in 1..Len(allFds) :
       allFds[i].source = "invariant" /\ Len(allFds[i].determinant) = 2
  /\ Len(result.findings) >= 2

----------------------------------------------------------------------------
(* The audit without an invariants file.                                   *)

InvariantRules ==
  {"INVARIANT_UNKNOWN_MODEL", "INVARIANT_UNKNOWN_FIELD", "INVARIANT_DETERMINANT_NOT_ENFORCED"}

\* C30: an audit without an invariants file returns no finding of severity
\* error and no NF3_VIOLATION, BCNF_VIOLATION or INVARIANT_* finding, and
\* with --fail-on error its exit code is 0; in any audit the findings of
\* severity error are NF3_VIOLATION findings, and the FD list of an audit
\* with such a finding has an invariant-sourced FD.
C30_NoErrorWithoutInvariants ==
  /\ (FindingsComputed /\ invariantsFile = None)
       => \A k \in 1..Len(allFindings) :
            /\ allFindings[k].severity # "error"
            /\ allFindings[k].rule \notin {"NF3_VIOLATION", "BCNF_VIOLATION"} \cup InvariantRules
  /\ (pc \in {"returned", "exited"} /\ invariantsFile = None)
       => \A k \in 1..Len(result.findings) :
            /\ result.findings[k].severity # "error"
            /\ result.findings[k].rule
                 \notin {"NF3_VIOLATION", "BCNF_VIOLATION"} \cup InvariantRules
  /\ (pc = "exited" /\ invariantsFile = None /\ failOn = "error") => exitCode = EXIT_OK
  /\ FindingsComputed
       => \A k \in 1..Len(allFindings) :
            allFindings[k].severity = "error"
              => /\ allFindings[k].rule = "NF3_VIOLATION"
                 /\ \E i \in 1..Len(allFds) : allFds[i].source = "invariant"

\* Without an invariants file and with --fail-on error, the audit of a
\* schema with a foreign key returned warnings and the exit code is 0.
C30_Witness ==
  /\ pc = "exited"
  /\ invariantsFile = None
  /\ failOn = "error"
  /\ \E i \in 1..Len(allFds) : allFds[i].source = "fk"
  /\ \E k \in 1..Len(result.findings) : result.findings[k].severity = "warning"
  /\ exitCode = EXIT_OK

====
